---------------------------- MODULE Spec2Model ----------------------------
(***************************************************************************)
(* A model of VectorSlicerGCode: the G-code encoder BasePrinter            *)
(* (lib/gcode/base_printer.py), the Hyrel adapter HyrelPrinter             *)
(* (lib/gcode/hyrel_printer.py) and the Pattern / Layer / PrintPath        *)
(* geometry (lib/pattern_reading) the encoder consumes.                    *)
(*                                                                         *)
(* Units.  Positions are whole millimetres.  Distances (norms) are kept in *)
(* 1/LenScale mm, print time in 1/(LenScale*TimeScale) minutes, widths and *)
(* cross-sections in 1/WidthScale mm (mm^2), extrusion amounts in          *)
(* 1/(LenScale*ExtScale) mm.  An optional Python argument (None or a       *)
(* value) is the empty sequence or a one-element sequence.                 *)
(*                                                                         *)
(* An operator that models a method takes the encoder record p and returns *)
(* the encoder after the call; p.err names the exception the running call  *)
(* raised ("" for none), and a method applied to a failed encoder does     *)
(* nothing, which is how the exception leaves the callers.                 *)
(***************************************************************************)
EXTENDS Integers, Sequences, FiniteSets, TLC

VARIABLES printer, pattern, artifact, last, peer

vars == <<printer, pattern, artifact, last, peer>>

---------------------------------------------------------------------------
(* Bounds of the model and fixed-point resolutions.                        *)

\* Number of calls a caller makes on one encoder instance.
MaxCalls == 2

\* Largest layer count handed to slice_pattern.
MaxLayers == 4

\* The longest session of printing moves and exports.
MaxMoves == 3

\* Distances are kept in 1/LenScale mm.
LenScale == 10

\* Print time is kept in 1/(LenScale*TimeScale) minutes.
TimeScale == 100

\* Extrusion amounts are kept in 1/(LenScale*ExtScale) mm.
ExtScale == 100

---------------------------------------------------------------------------
(* Optional values and small helpers.                                      *)

None == <<>>

Some(v) == <<v>>

IsNone(o) == o = <<>>

Val(o) == o[1]

Abs(x) == IF x < 0 THEN 0 - x ELSE x

\* The only element of a set of one element.
TheOnly(S) == CHOOSE q \in S : TRUE

Min2(a, b) == IF a <= b THEN a ELSE b

Max2(a, b) == IF a >= b THEN a ELSE b

\* floor(sqrt(n)) is found in two steps: the multiple of RootStep below it,
\* then the offset from that multiple.  Roots stay below RootStep * RootStep.
RootStep == 128

ISqrtCoarse(n) ==
    CHOOSE a \in 0..(RootStep - 1) :
        (a * RootStep) * (a * RootStep) <= n /\ n < ((a + 1) * RootStep) * ((a + 1) * RootStep)

ISqrtFine(n, base) ==
    CHOOSE r \in base..(base + RootStep - 1) : r * r <= n /\ n < (r + 1) * (r + 1)

ISqrt(n) == ISqrtFine(n, ISqrtCoarse(n) * RootStep)

\* np.linalg.norm of a 2- or 3-vector of millimetres, in 1/LenScale mm.
RECURSIVE SumSq(_)
SumSq(v) == IF v = <<>> THEN 0 ELSE v[1] * v[1] + SumSq(Tail(v))

Norm(v) == ISqrt(SumSq(v) * LenScale * LenScale)

VSub(a, b) == [i \in 1..Len(a) |-> a[i] - b[i]]

VAdd(a, b) == [i \in 1..Len(a) |-> a[i] + b[i]]

Suffix(s, n) == SubSeq(s, n + 1, Len(s))

---------------------------------------------------------------------------
(* Extrusion control types (base_printer.py 40-57).                        *)

HYREL_NATIVE == 0
EXT_ABS_CONST == 1
EXT_REL_CONST == 2
EXT_ABS_VAR == 3
EXT_REL_VAR == 4
EXT_ABS_VAR_SPEED == 5
EXT_REL_VAR_SPEED == 6

EXT_WITH_VAR_SPEED == {EXT_ABS_VAR_SPEED, EXT_REL_VAR_SPEED}

EXT_WITH_CONST_W == {EXT_ABS_CONST, EXT_REL_CONST, HYREL_NATIVE}

EXT_WITH_VAR_W == {EXT_ABS_VAR, EXT_REL_VAR, EXT_ABS_VAR_SPEED, EXT_REL_VAR_SPEED}

EXT_WITH_REL_E == {EXT_REL_CONST, EXT_REL_VAR, EXT_REL_VAR_SPEED}

EXT_WITH_ABS_E == {EXT_ABS_VAR, EXT_ABS_CONST, EXT_ABS_VAR_SPEED}

\* np.pi as the rational PiNum / PiDen.
PiNum == 355
PiDen == 113

\* Widths and cross-sections are kept in 1/WidthScale mm (mm^2), and the
\* overlap of a vertex in units of 2/WidthScale, so that the width
\* print_width * (1 - overlap / 2) of _slice_path is a whole number.
WidthScale == 4

\* cross_section(width, height): width in 1/WidthScale mm, height in mm,
\* the result in 1/WidthScale mm^2.
cross_section(width, height) ==
    LET apparent_width == width * 4 * PiDen + height * WidthScale * (4 * PiDen - PiNum)
        body_part      == (apparent_width - height * WidthScale * 4 * PiDen) * height
        caps_part      == PiNum * height * height * WidthScale
    IN  (body_part + caps_part) \div (4 * PiDen)

\* self._filament_cross_section = pi * d^2 / 4, the diameter in 1/100 mm and
\* the result in 1/100 mm^2.
filament_cross_section(d100) == (PiNum * d100 * d100) \div (4 * PiDen * 100)

---------------------------------------------------------------------------
(* The header, body and footer streams.  A line is a tuple whose first     *)
(* element names the opcode; the numbers after it are the line's fields.   *)
(* A write to a stream that export has closed raises ValueError.           *)

Failed(p) == p.err # ""

Raise(p, e) == IF Failed(p) THEN p ELSE [p EXCEPT !.err = e]

WriteBody(p, line) ==
    IF Failed(p) THEN p
    ELSE IF p.closed THEN Raise(p, "ValueError")
    ELSE [p EXCEPT !.body = Append(@, line)]

WriteHeader(p, line) ==
    IF Failed(p) THEN p
    ELSE IF p.closed THEN Raise(p, "ValueError")
    ELSE [p EXCEPT !.header = Append(@, line)]

WriteFooter(p, line) ==
    IF Failed(p) THEN p
    ELSE IF p.closed THEN Raise(p, "ValueError")
    ELSE [p EXCEPT !.footer = Append(@, line)]

break_body(p) == WriteBody(p, <<"break">>)

break_header(p) == WriteHeader(p, <<"break">>)

comment_body(p, content) == WriteBody(p, <<"comment", content>>)

comment_header(p, content) == WriteHeader(p, <<"comment", content>>)

comment_footer(p, content) == WriteFooter(p, <<"comment", content>>)

command_body(p, content) == WriteBody(p, content)

command_footer(p, content) == WriteFooter(p, content)

---------------------------------------------------------------------------
(* Moves.                                                                  *)

\* Several writes to the body stream, in order: a closed stream refuses the
\* first of them.
body_lines(p, lines) ==
    IF Failed(p) \/ lines = <<>> THEN p
    ELSE IF p.closed THEN Raise(p, "ValueError")
    ELSE [p EXCEPT !.body = @ \o lines]

\* Several writes to the header stream, in order.
header_lines(p, lines) ==
    IF Failed(p) \/ lines = <<>> THEN p
    ELSE IF p.closed THEN Raise(p, "ValueError")
    ELSE [p EXCEPT !.header = @ \o lines]

\* The check against the limits only, without the lower bound of zero.
position_above_limits(p, position) ==
    \/ (~IsNone(p.x_limit) /\ position[1] > Val(p.x_limit))
    \/ (~IsNone(p.y_limit) /\ position[2] > Val(p.y_limit))
    \/ (~IsNone(p.z_limit) /\ position[3] > Val(p.z_limit))

\* __is_position_in_bounds: TRUE when the code raises RuntimeError.
position_out_of_bounds(p, position) ==
    \/ (~IsNone(p.x_limit) /\ position[1] > Val(p.x_limit))
    \/ (~IsNone(p.y_limit) /\ position[2] > Val(p.y_limit))
    \/ (~IsNone(p.z_limit) /\ position[3] > Val(p.z_limit))
    \/ position[1] < 0 \/ position[2] < 0 \/ position[3] < 0

is_position_in_bounds(p, position) ==
    IF position_out_of_bounds(p, position) THEN Raise(p, "RuntimeError") ELSE p

HasRetraction(p) == ~IsNone(p.retraction_length) /\ ~IsNone(p.retraction_rate)

\* The pulse before the move only.
retraction_pulse_reverse_only(p, sign) ==
    IF HasRetraction(p) /\ sign < 0
    THEN << <<"G1E", sign * Val(p.retraction_length), Val(p.retraction_rate)>> >>
    ELSE <<>>

\* The reverse (sign = -1) or forward (sign = 1) extrusion pulse bracketing a
\* non-printing move (base_printer.py 388-389 and 407-408).
retraction_pulse(p, sign) ==
    IF HasRetraction(p)
    THEN << <<"G1E", sign * Val(p.retraction_length), Val(p.retraction_rate)>> >>
    ELSE <<>>

\* The condition without the comparison of the heights.
is_lift_off_at_any_height(p, position) ==
    /\ ~IsNone(p.lift_off_distance)
    /\ Norm(VSub(position, p.current_position)) >= Val(p.lift_off_distance) * LenScale

\* The condition of base_printer.py 390-394.
is_lift_off(p, position) ==
    /\ ~IsNone(p.lift_off_distance)
    /\ Norm(VSub(position, p.current_position)) >= Val(p.lift_off_distance) * LenScale
    /\ position[3] = p.current_position[3]

\* The motion commands of a non-printing move to the 3-D position
\* (base_printer.py 395-404).
travel_commands(p, position, speed) ==
    IF is_lift_off(p, position)
    THEN << <<"G0Z", p.current_position[3] + p.lift_off_height, speed>>,
            <<"G0XY", position[1], position[2], speed>>,
            <<"G0Z", position[3], speed>> >>
    ELSE << <<"G0", position[1], position[2], position[3], speed>> >>

\* move_length of base_printer.py 396-405.
travel_length(p, position) ==
    IF is_lift_off(p, position)
    THEN p.lift_off_height * LenScale
         + Norm(VSub(SubSeq(p.current_position, 1, 2), SubSeq(position, 1, 2)))
         + Abs(p.current_position[3] + p.lift_off_height - position[3]) * LenScale
    ELSE Norm(VSub(p.current_position, position))

\* The bookkeeping with the length counted as printed as well.
travelled_as_printed(p, position, move_length, speed) ==
    IF Failed(p) THEN p
    ELSE [p EXCEPT !.current_position = position,
                   !.non_print_distance = @ + move_length,
                   !.print_distance = @ + move_length,
                   !.print_time = @ + (move_length * TimeScale) \div speed]

\* The bookkeeping that ends _non_printing_move (base_printer.py 410-412).
travelled(p, position, move_length, speed) ==
    IF Failed(p) THEN p
    ELSE [p EXCEPT !.current_position = position,
                   !.non_print_distance = @ + move_length,
                   !.print_time = @ + (move_length * TimeScale) \div speed]

\* _non_printing_move from the bounds check on, the position widened to
\* three components.
non_printing_move_3d(p, position, speed) ==
    travelled(
        body_lines(is_position_in_bounds(p, position),
                   retraction_pulse(p, 0 - 1) \o travel_commands(p, position, speed)
                   \o retraction_pulse(p, 1)),
        position, travel_length(p, position), speed)

\* A 2-D position widened with the current Z.
widened(p, position) ==
    IF Len(position) = 2 THEN <<position[1], position[2], p.current_position[3]>>
    ELSE position

\* _non_printing_move(position, speed=None)
non_printing_move(p, position, speed) ==
    IF Failed(p) THEN p
    ELSE IF Len(position) \notin {2, 3} THEN Raise(p, "RuntimeError")
    ELSE non_printing_move_3d(p, widened(p, position),
                              IF IsNone(speed) THEN p.non_print_speed ELSE Val(speed))

\* _z_move(height, speed=None)
z_move(p, height, speed) ==
    IF Failed(p) THEN p
    ELSE non_printing_move(p, <<p.current_position[1], p.current_position[2], height>>, speed)

\* A Z move to the displacement as a height.
z_move_to_displacement(p, displacement, speed) ==
    IF Failed(p) THEN p
    ELSE z_move(p, displacement, speed)

\* _z_move_incremental(displacement, speed=None)
z_move_incremental(p, displacement, speed) ==
    IF Failed(p) THEN p
    ELSE z_move(p, p.current_position[3] + displacement, speed)

\* _non_printing_move_relative(displacement, speed=None)
non_printing_move_relative(p, displacement, speed) ==
    IF Failed(p) THEN p
    ELSE non_printing_move(
             p,
             VAdd(p.current_position,
                  IF Len(displacement) = 2 THEN displacement \o <<0>> ELSE displacement),
             speed)

---------------------------------------------------------------------------
(* PrintPath, Layer and Pattern (lib/pattern_reading).  Coordinates are     *)
(* pairs <<x, y>>; bounds are <<min x, min y, max x, max y>>; lengths are  *)
(* in 1/LenScale; a centre is kept doubled (in 1/2 units); the overlap of  *)
(* a vertex is kept in units of 2/WidthScale.  A transform returns the     *)
(* entity after it (v) and the exception it raised (err, "" for none): the *)
(* entity is mutated in place, so what was changed before the raise stays  *)
(* changed.                                                                *)

RECURSIVE MinOf(_, _)
MinOf(s, k) == IF Len(s) = 1 THEN s[1][k] ELSE Min2(s[1][k], MinOf(Tail(s), k))

RECURSIVE MaxOf(_, _)
MaxOf(s, k) == IF Len(s) = 1 THEN s[1][k] ELSE Max2(s[1][k], MaxOf(Tail(s), k))

\* PrintPath.__get_bounds
path_get_bounds(coordinates) ==
    <<MinOf(coordinates, 1), MinOf(coordinates, 2), MaxOf(coordinates, 1), MaxOf(coordinates, 2)>>

\* PrintPath.__get_length
RECURSIVE path_get_length(_)
path_get_length(coordinates) ==
    IF Len(coordinates) < 2 THEN 0
    ELSE Norm(VSub(coordinates[2], coordinates[1])) + path_get_length(Tail(coordinates))

\* PrintPath.__init__ on the parsed vertices; without overlap data the
\* overlap is np.zeros(position_count).
PrintPath(coordinates, overlap) ==
    [path_coordinates |-> coordinates,
     position_count   |-> Len(coordinates),
     overlap          |-> IF IsNone(overlap) THEN [i \in 1..Len(coordinates) |-> 0]
                          ELSE Val(overlap),
     bounds           |-> path_get_bounds(coordinates),
     length           |-> path_get_length(coordinates)]

path_start(path) == path.path_coordinates[1]

path_end(path) == path.path_coordinates[Len(path.path_coordinates)]

Ok(v) == [v |-> v, err |-> ""]

Err(v, e) == [v |-> v, err |-> e]

\* The product of a value and the ratio <<numerator, denominator>>.
Times(x, ratio) == (x * ratio[1]) \div ratio[2]

\* A scale that sets the cached length to the ratio.
path_scale_length_assigned(path, ratio) ==
    IF ratio[1] <= 0 THEN Err(path, "ValueError")
    ELSE Ok([path EXCEPT
        !.path_coordinates = [i \in 1..Len(@) |-> <<Times(@[i][1], ratio), Times(@[i][2], ratio)>>],
        !.bounds = [i \in 1..4 |-> Times(@[i], ratio)],
        !.length = Times(LenScale, ratio)])

\* PrintPath.scale(ratio)
path_scale(path, ratio) ==
    IF ratio[1] <= 0 THEN Err(path, "ValueError")
    ELSE Ok([path EXCEPT
        !.path_coordinates = [i \in 1..Len(@) |-> <<Times(@[i][1], ratio), Times(@[i][2], ratio)>>],
        !.bounds = [i \in 1..4 |-> Times(@[i], ratio)],
        !.length = Times(@, ratio)])

\* PrintPath.move(offset)
path_move(path, offset) ==
    IF Len(offset) # 2 THEN Err(path, "ValueError")
    ELSE Ok([path EXCEPT
        !.path_coordinates = [i \in 1..Len(@) |-> VAdd(@[i], offset)],
        !.bounds = VAdd(@, offset \o offset)])

\* PrintPath.invert()
path_invert(path) ==
    Ok([path EXCEPT !.path_coordinates = [i \in 1..Len(@) |-> @[Len(@) + 1 - i]]])

\* A vertex turned by a number of quarter turns, counter-clockwise, about the
\* centre whose doubled coordinates are centre2 (base of print_path.py 70-75
\* for the angles whose sine and cosine are whole numbers).
turned(v, quarters, centre2) ==
    IF quarters % 4 = 1
    THEN <<(centre2[1] + centre2[2]) \div 2 - v[2], (centre2[2] - centre2[1]) \div 2 + v[1]>>
    ELSE IF quarters % 4 = 2 THEN <<centre2[1] - v[1], centre2[2] - v[2]>>
    ELSE IF quarters % 4 = 3
    THEN <<(centre2[1] - centre2[2]) \div 2 + v[2], (centre2[2] + centre2[1]) \div 2 - v[1]>>
    ELSE v

\* The path turned and its bounds found again (print_path.py 70-76).
path_turned(path, coordinates) ==
    [path EXCEPT !.path_coordinates = coordinates, !.bounds = path_get_bounds(coordinates)]

\* A rotate that turns the path about the origin before it finds the centre
\* wrong.
path_rotate_checked_late(path, quarters, centre2) ==
    IF Len(centre2) # 2
    THEN Err(path_turned(path, [i \in 1..Len(path.path_coordinates) |->
                                   turned(path.path_coordinates[i], quarters, <<0, 0>>)]),
             "ValueError")
    ELSE Ok(path_turned(path, [i \in 1..Len(path.path_coordinates) |->
                                  turned(path.path_coordinates[i], quarters, centre2)]))

\* PrintPath.rotate(angle, centre), the angle in quarter turns and the centre
\* doubled; a centre of None has become [0, 0] at print_path.py 63-64.
path_rotate(path, quarters, centre2) ==
    IF Len(centre2) # 2 THEN Err(path, "ValueError")
    ELSE Ok(path_turned(path, [i \in 1..Len(path.path_coordinates) |->
                                  turned(path.path_coordinates[i], quarters, centre2)]))

\* One in-place transform of a path: t.kind names it.
path_transform(path, t) ==
    IF t.kind = "scale" THEN path_scale(path, t.ratio)
    ELSE IF t.kind = "rotate" THEN path_rotate(path, t.quarters, t.centre2)
    ELSE IF t.kind = "invert" THEN path_invert(path)
    ELSE path_move(path, t.offset)

\* for child in children: child.<transform>(...), stopping at the first
\* child that raises: r is what the transform of child i returned.
RECURSIVE paths_transform(_, _, _)
paths_transformed(paths, i, t, r) ==
    IF r.err # "" THEN Err([paths EXCEPT ![i] = r.v], r.err)
    ELSE paths_transform([paths EXCEPT ![i] = r.v], i + 1, t)

paths_transform(paths, i, t) ==
    IF i > Len(paths) THEN Ok(paths)
    ELSE paths_transformed(paths, i, t, path_transform(paths[i], t))

RECURSIVE MinBound(_, _)
MinBound(s, k) == IF Len(s) = 1 THEN s[1].bounds[k] ELSE Min2(s[1].bounds[k], MinBound(Tail(s), k))

RECURSIVE MaxBound(_, _)
MaxBound(s, k) == IF Len(s) = 1 THEN s[1].bounds[k] ELSE Max2(s[1].bounds[k], MaxBound(Tail(s), k))

\* Layer.__get_bounds and Pattern.__get_bounds
get_bounds(children) ==
    <<MinBound(children, 1), MinBound(children, 2), MaxBound(children, 3), MaxBound(children, 4)>>

\* Layer.__get_centre and Pattern.__get_centre, doubled.
get_centre(bounds) == <<bounds[1] + bounds[3], bounds[2] + bounds[4]>>

\* Layer.__get_printing_distance
RECURSIVE get_printing_distance(_)
get_printing_distance(paths) ==
    IF paths = <<>> THEN 0 ELSE paths[1].length + get_printing_distance(Tail(paths))

\* Layer.__get_non_printing_distance
RECURSIVE get_non_printing_distance(_)
get_non_printing_distance(paths) ==
    IF Len(paths) < 2 THEN 0
    ELSE Norm(VSub(path_end(paths[1]), path_start(paths[2])))
         + get_non_printing_distance(Tail(paths))

\* Layer.__init__
Layer(print_paths) ==
    [print_paths           |-> print_paths,
     path_count            |-> Len(print_paths),
     bounds                |-> get_bounds(print_paths),
     centre                |-> get_centre(get_bounds(print_paths)),
     printing_distance     |-> get_printing_distance(print_paths),
     non_printing_distance |-> get_non_printing_distance(print_paths)]

\* Layer.__update_properties
layer_update_properties(layer) ==
    [layer EXCEPT !.bounds = get_bounds(layer.print_paths),
                  !.centre = get_centre(get_bounds(layer.print_paths)),
                  !.printing_distance = get_printing_distance(layer.print_paths),
                  !.non_printing_distance = get_non_printing_distance(layer.print_paths)]

\* A layer transform that leaves the cached properties as they were.
layer_transformed_stale(layer, r) ==
    IF r.err # "" THEN Err([layer EXCEPT !.print_paths = r.v], r.err)
    ELSE Ok([layer EXCEPT !.print_paths = r.v])

\* Layer.scale / Layer.move / Layer.rotate: the paths (r is what their loop
\* returned), then __update_properties.
layer_transformed(layer, r) ==
    IF r.err # "" THEN Err([layer EXCEPT !.print_paths = r.v], r.err)
    ELSE Ok(layer_update_properties([layer EXCEPT !.print_paths = r.v]))

layer_transform(layer, t) == layer_transformed(layer, paths_transform(layer.print_paths, 1, t))

layer_scale(layer, ratio) == layer_transform(layer, [kind |-> "scale", ratio |-> ratio])

layer_move(layer, offset) == layer_transform(layer, [kind |-> "move", offset |-> offset])

\* A centre handed to rotate, doubled as the centres of the model are; one
\* that is no 2-vector is handed on as it is.
doubled(centre) == IF Len(centre) = 2 THEN <<2 * centre[1], 2 * centre[2]>> ELSE centre

\* Layer.rotate(angle, centre=None)
layer_rotate(layer, quarters, centre) ==
    layer_transform(layer, [kind |-> "rotate", quarters |-> quarters,
                            centre2 |-> IF IsNone(centre) THEN layer.centre
                                        ELSE doubled(Val(centre))])

\* self.print_paths.reverse() of Layer.invert
reversed(paths) == [i \in 1..Len(paths) |-> paths[Len(paths) + 1 - i]]

\* Layer.invert(): the paths in reverse order, each inverted; the cached
\* properties are not found again.
layer_invert(layer) ==
    Ok([layer EXCEPT !.print_paths =
            paths_transform(reversed(layer.print_paths), 1, [kind |-> "invert"]).v])

RECURSIVE layers_transform(_, _, _)
layers_transformed(layers, i, t, r) ==
    IF r.err # "" THEN Err([layers EXCEPT ![i] = r.v], r.err)
    ELSE layers_transform([layers EXCEPT ![i] = r.v], i + 1, t)

layers_transform(layers, i, t) ==
    IF i > Len(layers) THEN Ok(layers)
    ELSE layers_transformed(layers, i, t, layer_transform(layers[i], t))

\* Pattern.__update_bounds
pattern_update_bounds(pat) ==
    [pat EXCEPT !.bounds = get_bounds(pat.layers),
                !.centre = get_centre(get_bounds(pat.layers))]

\* Pattern.scale / Pattern.move: the layers (r is what their loop returned),
\* then __update_bounds.
pattern_transformed(pat, r) ==
    IF r.err # "" THEN Err([pat EXCEPT !.layers = r.v], r.err)
    ELSE Ok(pattern_update_bounds([pat EXCEPT !.layers = r.v]))

pattern_transform(pat, t) == pattern_transformed(pat, layers_transform(pat.layers, 1, t))

pattern_scale(pat, ratio) == pattern_transform(pat, [kind |-> "scale", ratio |-> ratio])

pattern_move(pat, offset) == pattern_transform(pat, [kind |-> "move", offset |-> offset])

\* Pattern.rotate(angle, centre=None): every layer about the same centre.
pattern_rotate(pat, quarters, centre) ==
    pattern_transform(pat, [kind |-> "rotate", quarters |-> quarters,
                            centre2 |-> IF IsNone(centre) THEN pat.centre
                                        ELSE doubled(Val(centre))])

\* Pattern.__init__ on the parsed layers.
Pattern(pixel_path_width, pattern_name, layers) ==
    [pixel_path_width |-> pixel_path_width,
     pattern_name     |-> pattern_name,
     layers           |-> layers,
     layer_count      |-> Len(layers),
     bounds           |-> get_bounds(layers),
     centre           |-> get_centre(get_bounds(layers))]

\* Pattern.get_origin(): the start of the first path of the first layer.
get_origin(pat) == path_start(pat.layers[1].print_paths[1])

---------------------------------------------------------------------------
(* Printing moves.                                                         *)

\* The amount without the extrusion multiplier.
extrusion_amount_unscaled(p, length, path_cross_section) ==
    (length * path_cross_section * ExtScale * 100) \div (WidthScale * p.filament_cross_section)

\* length * path_cross_section / self._filament_cross_section *
\* self._extrusion_multiplier, in 1/(LenScale*ExtScale) mm.
extrusion_amount(p, length, path_cross_section) ==
    (length * path_cross_section * p.extrusion_multiplier * ExtScale * 100)
        \div (WidthScale * p.filament_cross_section)

\* The amount of a volumetric policy (ExtrusionType(is_volumetric=True),
\* requested at hyrel_printer.py 99): the volume times the multiplier, in
\* 1/(LenScale*ExtScale) mm^3.
volumetric_amount(p, length, path_cross_section) ==
    (length * path_cross_section * p.extrusion_multiplier * ExtScale) \div WidthScale

\* The amount of a printing move under the metering of the encoder's policy.
metered_amount(p, length, path_cross_section) ==
    IF p.is_volumetric THEN volumetric_amount(p, length, path_cross_section)
    ELSE extrusion_amount(p, length, path_cross_section)

\* The G1 line with this move's own amount under every computed metering.
printing_command_own_amount(p, position, amount, total, print_speed) ==
    IF p.extrusion_control_type \in EXT_WITH_ABS_E \cup EXT_WITH_REL_E
    THEN <<"G1", position[1], position[2], position[3], amount, print_speed>>
    ELSE <<"G1E1", position[1], position[2], position[3], print_speed>>

\* The G1 line of a printing move (base_printer.py 321-329).
printing_command(p, position, amount, total, print_speed) ==
    IF p.extrusion_control_type \in EXT_WITH_ABS_E
    THEN <<"G1", position[1], position[2], position[3], total, print_speed>>
    ELSE IF p.extrusion_control_type \in EXT_WITH_REL_E
    THEN <<"G1", position[1], position[2], position[3], amount, print_speed>>
    ELSE <<"G1E1", position[1], position[2], position[3], print_speed>>

\* print_speed of base_printer.py 314-317.
feed_speed(p, speed, path_cross_section) ==
    IF p.is_speed_variable
    THEN ((IF IsNone(speed) THEN p.print_speed ELSE Val(speed)) * p.reference_cross_section)
             \div path_cross_section
    ELSE IF IsNone(speed) THEN p.print_speed ELSE Val(speed)

\* base_printer.py 313-331 for a move of the length, extrusion amount and
\* feed speed computed: the statistics are updated before the line is
\* written.  extruded is a history of the model: the sum of the amounts of all
\* printing moves.
printed(p, position, length, amount, print_speed) ==
    command_body([p EXCEPT !.extrusion_distance = @ + amount,
                           !.extruded = @ + amount,
                           !.print_distance = @ + length,
                           !.print_time = @ + (length * TimeScale) \div print_speed,
                           !.current_position = position],
                 printing_command(p, position, amount, p.extrusion_distance + amount, print_speed))

\* _printing_move_3d_variable_width(position, width, speed=None)
printing_move_3d_variable_width(p, position, width, speed) ==
    IF Failed(p) THEN p
    ELSE printed(p, position,
                 Norm(VSub(position, p.current_position)),
                 metered_amount(p, Norm(VSub(position, p.current_position)),
                                cross_section(width, p.layer_thickness)),
                 feed_speed(p, speed, cross_section(width, p.layer_thickness)))

\* _printing_move_variable_width(position, width, speed=None)
printing_move_variable_width(p, position, width, speed) ==
    IF Failed(p) THEN p
    ELSE IF Len(position) \notin {2, 3} THEN Raise(p, "ValueError")
    ELSE printing_move_3d_variable_width(p, widened(p, position), width, speed)

\* _printing_move_constant_width(position, speed=None)
printing_move_constant_width(p, position, speed) ==
    printing_move_variable_width(p, position, p.print_width * WidthScale, speed)

\* _printing_move(position, speed=None, width=None)
printing_move(p, position, speed, width) ==
    IF ~IsNone(width) /\ p.extrusion_control_type \in EXT_WITH_VAR_W
    THEN printing_move_variable_width(p, position, p.print_width * WidthScale, speed)
    ELSE printing_move_constant_width(p, position, speed)

\* _printing_move_relative(displacement, speed=None)
printing_move_relative(p, displacement, speed) ==
    IF Failed(p) THEN p
    ELSE IF Len(displacement) \notin {2, 3} THEN Raise(p, "ValueError")
    ELSE printing_move(
             p,
             VAdd(p.current_position,
                  IF Len(displacement) = 2 THEN displacement \o <<0>> ELSE displacement),
             speed, None)

\* One vertex of _slice_path (base_printer.py 450-455).  PrintPath always
\* carries an overlap array, so path.overlap is never None.
slice_vertex(p, path, i, speed) ==
    IF p.extrusion_control_type \in EXT_WITH_CONST_W
    THEN printing_move(p, path.path_coordinates[i], Some(speed), None)
    ELSE IF i > Len(path.overlap) THEN Raise(p, "IndexError")
    ELSE printing_move_variable_width(
             p, path.path_coordinates[i], p.print_width * (WidthScale - path.overlap[i]),
             Some(speed))

RECURSIVE slice_vertices(_, _, _, _)
slice_vertices(p, path, i, speed) ==
    IF Failed(p) \/ i > Len(path.path_coordinates) THEN p
    ELSE slice_vertices(slice_vertex(p, path, i, speed), path, i + 1, speed)

\* _slice_path that takes the travel to the first vertex for the move to it.
slice_path_from_second(p, path, speed) ==
    slice_vertices(p, path, 2, IF IsNone(speed) THEN p.print_speed ELSE Val(speed))

\* _slice_path(path, speed=None)
slice_path(p, path, speed) ==
    slice_vertices(p, path, 1, IF IsNone(speed) THEN p.print_speed ELSE Val(speed))

\* The loop of slice_layer (base_printer.py 241-244).
RECURSIVE slice_paths(_, _, _, _)
slice_paths(p, paths, i, speed) ==
    IF Failed(p) \/ i > Len(paths) THEN p
    ELSE slice_paths(
             slice_path(
                 non_printing_move(comment_body(p, "Moving to the next path."),
                                   path_start(paths[i]), None),
                 paths[i], speed),
             paths, i + 1, speed)

\* slice_layer(layer, speed=None)
slice_layer(p, layer, speed) ==
    IF Failed(p) THEN p
    ELSE IF IsNone(p.physical_pixel_size) THEN Raise(p, "ValueError")
    ELSE slice_paths(comment_body(p, "Beginning a new layer."), layer.print_paths, 1, speed)

---------------------------------------------------------------------------
(* slice_pattern and export.                                               *)

\* A reference to the caller's object in place of a copy.
shared_reference(pat) == [obj |-> pat, shared |-> TRUE]

\* deepcopy(pattern): the working object, and whether it is the caller's.
deepcopy(pat) == [obj |-> pat, shared |-> FALSE]

\* The indices without the wrap: past the last layer, the last layer again.
layer_indices_clamped(layers, layer_count) ==
    [i \in 1..layers |-> Min2(i - 1, layer_count - 1)]

\* i_layers for an integer layer count (base_printer.py 213).
layer_indices(layers, layer_count) == [i \in 1..layers |-> (i - 1) % layer_count]

\* interlayer_function(layer_index): the placeholder of the base class.
\* hook_calls is a history of the model: the index handed to every call and
\* the number of lines the body held when it was made.
interlayer_function(p, layer_index) ==
    IF Failed(p) THEN p ELSE [p EXCEPT !.hook_calls = Append(@, <<layer_index, Len(p.body)>>)]

\* The loop of base_printer.py 218-221; i_layers holds 0-based indices.
\* layer_calls is a history of the model: the index of every slice_layer call.
RECURSIVE slice_layers(_, _, _, _)
slice_layers(p, pat, i_layers, i) ==
    IF Failed(p) \/ i > Len(i_layers) THEN p
    ELSE slice_layers(
             z_move_incremental(
                 interlayer_function(
                     slice_layer([p EXCEPT !.layer_calls = Append(@, i_layers[i])],
                                 pat.layers[i_layers[i] + 1], None),
                     i - 1),
                 p.layer_thickness, None),
             pat, i_layers, i + 1)

\* What slice_pattern does with the scaled and moved copy (base_printer.py
\* 210-221).
slice_copy(p, pat, layers) ==
    slice_layers(
        z_move(non_printing_move(p, get_origin(pat), None), p.first_layer_thickness, None),
        pat, layer_indices(layers, pat.layer_count), 1)

\* pattern_copy.move(offset) if an offset is given (base_printer.py 207-208),
\* scaled being what pattern_copy.scale returned.
moved_copy(scaled, offset) ==
    IF scaled.err # "" \/ IsNone(offset) THEN scaled
    ELSE pattern_move(scaled.v, Val(offset))

\* slice_pattern from the transformed copy on: the encoder after the call and
\* the caller's Pattern object after the call.
slice_transformed(p, pat, shared, copy, layers) ==
    [printer |-> IF copy.err # "" THEN Raise(p, copy.err) ELSE slice_copy(p, copy.v, layers),
     pattern |-> IF shared THEN copy.v ELSE pat]

\* slice_pattern from deepcopy on (base_printer.py 205-221).
slice_copied(p, pat, copy, layers, offset) ==
    IF Failed(p) THEN [printer |-> p, pattern |-> pat]
    ELSE slice_transformed(p, pat, copy.shared,
                           moved_copy(pattern_scale(copy.obj, Val(p.physical_pixel_size)), offset),
                           layers)

\* The check that lets a count of zero through.
negative_layers(layers) == layers < 0

\* The condition of base_printer.py 202.
non_positive_layers(layers) == layers <= 0

\* slice_pattern(pattern, layers, offset=None)
slice_pattern(p, pat, layers, offset) ==
    IF non_positive_layers(layers) THEN [printer |-> Raise(p, "RuntimeError"), pattern |-> pat]
    ELSE IF pat.pixel_path_width = 0
    THEN [printer |-> Raise(p, "ZeroDivisionError"), pattern |-> pat]
    ELSE slice_copied(
             comment_body(
                 [p EXCEPT !.physical_pixel_size = Some(<<p.print_width, pat.pixel_path_width>>)],
                 "Slicing pattern"),
             pat, deepcopy(pat), layers, offset)

\* slice_pattern handed an iterable in place of a count.  layers.kind says
\* whether it is a Python list or a numpy array and layers.items holds its
\* elements; the arrays of the sessions hold at least one element.

\* `if layers <= 0` (base_printer.py 202) on an iterable: the exception it
\* raises, "" for none.  A list is not ordered against an int; an array
\* compares element by element, and only an array of one element has a
\* truth value.
compared_with_zero(layers) ==
    IF layers.kind = "list" THEN "TypeError"
    ELSE IF Len(layers.items) # 1 THEN "ValueError"
    ELSE IF non_positive_layers(layers.items[1]) THEN "RuntimeError"
    ELSE ""

\* i_layers for an iterable (base_printer.py 211).
listed_indices(items, layer_count) == [i \in 1..Len(items) |-> items[i] % layer_count]

\* base_printer.py 215-221 on the scaled and moved copy.
slice_listed_copy(p, copy, items) ==
    IF Failed(p) THEN p
    ELSE IF copy.err # "" THEN Raise(p, copy.err)
    ELSE slice_layers(
             z_move(non_printing_move(p, get_origin(copy.v), None), p.first_layer_thickness, None),
             copy.v, listed_indices(items, copy.v.layer_count), 1)

\* base_printer.py 205-208: the copy is scaled and moved.
slice_listed_sized(p, pat, items, offset) ==
    slice_listed_copy(p, moved_copy(pattern_scale(pat, Val(p.physical_pixel_size)), offset), items)

\* slice_pattern(pattern, layers, offset=None) with layers an iterable.
slice_pattern_listed(p, pat, layers, offset) ==
    IF compared_with_zero(layers) # "" THEN Raise(p, compared_with_zero(layers))
    ELSE IF pat.pixel_path_width = 0 THEN Raise(p, "ZeroDivisionError")
    ELSE slice_listed_sized(
             comment_body(
                 [p EXCEPT !.physical_pixel_size = Some(<<p.print_width, pat.pixel_path_width>>)],
                 "Slicing pattern"),
             pat, layers.items, offset)

\* The reset that writes G92 E0 before it folds the session extrusion.
reset_extrusion_status_emit_first(p) ==
    IF Failed(p) THEN p
    ELSE TheOnly({ IF Failed(written) THEN written
                   ELSE [written EXCEPT !.total_extrusion_distance = @ + p.extrusion_distance,
                                        !.extrusion_distance = 0] :
                   written \in {command_body(p, <<"G92E0">>)} })

\* _reset_extrusion_status
reset_extrusion_status(p) ==
    IF Failed(p) THEN p
    ELSE command_body([p EXCEPT !.total_extrusion_distance = @ + p.extrusion_distance,
                           !.extrusion_distance = 0],
                 <<"G92E0">>)

\* print_time is kept in 1/TimeUnit minutes.
TimeUnit == LenScale * TimeScale

\* hours, minutes and seconds of base_printer.py 160-162.
hours(print_time) == ((print_time \div TimeUnit) \div 60) % 60

minutes(print_time) == (print_time \div TimeUnit) % 60

seconds(print_time) == ((print_time * 60) \div TimeUnit) % 60

\* The lines of a supplement handed to export.
supplement(o) == IF IsNone(o) THEN <<>> ELSE << <<"supplement", Val(o)>> >>

\* The artifact with the body written first.
exported_body_first(p, header_supplement, body_supplement, footer_supplement) ==
    IF Failed(p) THEN [printer |-> p, artifact |-> None]
    ELSE [printer  |-> [p EXCEPT !.closed = TRUE, !.stored = FALSE],
          artifact |-> Some(p.body \o supplement(body_supplement)
                            \o p.header \o supplement(header_supplement)
                            \o p.footer \o supplement(footer_supplement))]

\* base_printer.py 170-190: the streams are closed and written to the
\* artifact, and their temporary files are removed.
exported(p, header_supplement, body_supplement, footer_supplement) ==
    IF Failed(p) THEN [printer |-> p, artifact |-> None]
    ELSE [printer  |-> [p EXCEPT !.closed = TRUE, !.stored = FALSE],
          artifact |-> Some(p.header \o supplement(header_supplement)
                            \o p.body \o supplement(body_supplement)
                            \o p.footer \o supplement(footer_supplement))]

\* base_printer.py 160-168: the extrusion is folded and the summary comments
\* are written to the header.
export_summary(p) ==
    header_lines(
        reset_extrusion_status(p),
        << <<"comment", "Total printing time",
             hours(p.print_time), minutes(p.print_time), seconds(p.print_time)>>,
           <<"comment", "Total printing distance", p.print_distance>>,
           <<"comment", "Total non-printing distance", p.non_print_distance>> >>)

\* BasePrinter.export: the encoder after the call and the artifact written.
export(p, header_supplement, body_supplement, footer_supplement) ==
    exported(export_summary(p), header_supplement, body_supplement, footer_supplement)

\* The faults of the file system during export: the output directory cannot
\* be made (os.mkdir, base_printer.py 159), the artifact cannot be opened
\* (open, 177), or it cannot be written (f.write, 178).
ExportFaults == {"none", "mkdir", "open", "write"}

\* base_printer.py 173-178 when open or f.write raises OSError: the streams
\* are closed, and os.remove (188-190) is not reached.  A file opened for
\* writing exists, empty.
export_interrupted(p, fault) ==
    IF Failed(p) THEN [printer |-> p, artifact |-> None]
    ELSE [printer  |-> Raise([p EXCEPT !.closed = TRUE], "OSError"),
          artifact |-> IF fault = "write" THEN Some(<<>>) ELSE None]

\* BasePrinter.export under a fault of the file system.
export_under(p, fault, header_supplement, body_supplement, footer_supplement) ==
    IF fault = "none" THEN export(p, header_supplement, body_supplement, footer_supplement)
    ELSE IF fault = "mkdir" THEN [printer |-> Raise(p, "OSError"), artifact |-> None]
    ELSE export_interrupted(export_summary(p), fault)

\* base_printer.py 173-178 when the temporary files are no longer on disk:
\* the streams are closed, the artifact is opened for writing (it exists,
\* empty), and open(h_name, "r") raises FileNotFoundError.
export_removed(p) ==
    IF Failed(p) THEN [printer |-> p, artifact |-> None]
    ELSE [printer  |-> Raise([p EXCEPT !.closed = TRUE], "FileNotFoundError"),
          artifact |-> Some(<<>>)]

\* BasePrinter.export of an instance whose temporary files another instance
\* may have removed: the names are module constants (base_printer.py 36-38)
\* that every instance opens (115-117), and p.stored says whether the files
\* are on disk.
export_shared(p, header_supplement, body_supplement, footer_supplement) ==
    IF p.stored THEN export(p, header_supplement, body_supplement, footer_supplement)
    ELSE export_removed(export_summary(p))

\* os.remove (base_printer.py 188-190) as the other instance meets it: the
\* files its streams were opened on are gone.
removed_under(q) == [q EXCEPT !.stored = FALSE]

---------------------------------------------------------------------------
(* BasePrinter helpers used by the adapters.                               *)

\* _generate_header
generate_header(p) ==
    header_lines(p, << <<"comment", "File generated using VectorSlicerGCode version">>,
                       <<"comment", "Generated on">> >>)

\* _dwell(ms=...)
dwell_ms(p, ms) == command_body(p, <<"G4P", ms>>)

\* _set_absolute_extrusion
set_absolute_extrusion(p) ==
    IF Failed(p) THEN p
    ELSE body_lines([p EXCEPT !.is_extrusion_absolute = TRUE],
                    << <<"comment", "Setting absolute E-values">>, <<"M82">> >>)

\* _set_relative_extrusion
set_relative_extrusion(p) ==
    IF Failed(p) THEN p
    ELSE body_lines([p EXCEPT !.is_extrusion_absolute = FALSE],
                    << <<"comment", "Setting relative E-values">>, <<"M83">> >>)

\* _set_relative_positioning
set_relative_positioning(p) ==
    body_lines(p, << <<"comment", "Switching to relative positioning.">>, <<"G91">> >>)

\* _set_absolute_positioning
set_absolute_positioning(p) ==
    body_lines(p, << <<"comment", "Switching to absolute positioning.">>, <<"G90">> >>)

\* The height of the move of _home_2d and _home_3d (base_printer.py 432).
HomeRaise == 10

\* base_printer.py 435-436
homed_2d(p) == IF Failed(p) THEN p ELSE [p EXCEPT !.current_position = <<0, 0, @[3]>>]

\* _home_2d
home_2d(p) ==
    homed_2d(
        command_body(
            set_absolute_positioning(
                non_printing_move(
                    set_relative_positioning(
                        body_lines(p, << <<"break">>, <<"comment", "Homing.">> >>)),
                    <<0, 0, HomeRaise>>, None)),
            <<"G28XY">>))

---------------------------------------------------------------------------
(* HyrelPrinter (lib/gcode/hyrel_printer.py).                              *)

\* _tool_number_m_command
ToolCommandBase == 11

tool_number_m_command(tool_number) == tool_number + ToolCommandBase

\* The flags of self._extrusion_type read by the adapter, in terms of the
\* control type of the encoder.
is_native_hyrel(p) == p.extrusion_control_type = HYREL_NATIVE

is_relative(p) == p.extrusion_control_type \in EXT_WITH_REL_E

is_variable_width(p) == p.extrusion_control_type \in EXT_WITH_VAR_W

is_variable_speed(p) == p.extrusion_control_type \in EXT_WITH_VAR_SPEED

\* __set_units_to_millimetres
set_units_to_millimetres(p) ==
    body_lines(p, << <<"break">>, <<"comment", "Setting units to millimetres.">>, <<"G21">> >>)

\* __clear_offsets
clear_offsets(p) ==
    body_lines(p, << <<"break">>, <<"comment", "Clearing offsets.">>, <<"G53">> >>)

\* hyrel_printer.py 128-131
set_extrusion_mode(p) ==
    IF is_relative(p) THEN set_relative_extrusion(p) ELSE set_absolute_extrusion(p)

\* hyrel_printer.py 137-138
check_flow_policy(p) ==
    IF is_variable_width(p) /\ ~is_variable_speed(p) THEN Raise(p, "RuntimeWarning") ELSE p

\* __configure_flow() with its defaults
configure_flow(p) ==
    check_flow_policy(
        dwell_ms(
            command_body(
                set_extrusion_mode(
                    body_lines(p, << <<"break">>, <<"comment", "Configuring flow.">>,
                                     IF is_native_hyrel(p) THEN <<"M229", 0, 0>>
                                     ELSE <<"M229", 1, 1>> >>)),
                <<"M221", tool_number_m_command(p.tool_number), p.print_width,
                  p.layer_thickness, p.hyrel_extrusion_multiplier, p.pulses_per_ul>>),
            1))

\* __set_nozzle_temperature(temperature, tool_number)
set_nozzle_temperature(p, temperature, tool_number) ==
    body_lines(p, << <<"break">>, <<"comment", "Setting nozzle temperature", temperature>>,
                     <<"M109", tool_number_m_command(tool_number), temperature>> >>)

\* __set_bed_temperature(temperature)
set_bed_temperature(p, temperature) ==
    body_lines(p, << <<"break">>, <<"comment", "Setting bed temperature", temperature>>,
                     <<"M190", temperature>> >>)

\* __turn_motors_off
turn_motors_off(p) ==
    body_lines(p, << <<"break">>, <<"comment", "Turning motors off.">>, <<"M18">> >>)

\* __signal_finished_print
signal_finished_print(p) ==
    command_footer(comment_footer(break_body(p), "Signalling finished print."), <<"M30">>)

\* __select_tool(tool_number)
select_tool(p, tool_number) ==
    IF Failed(p) THEN p
    ELSE IF ~(0 <= tool_number /\ tool_number < 4) THEN Raise(p, "ValueError")
    ELSE body_lines([p EXCEPT !.tool_number = tool_number],
                    << <<"break">>, <<"comment", "Selecting tool.">>, <<"T", tool_number>> >>)

\* __define_height_offset(height, register)
define_height_offset(p, height, register) ==
    IF Failed(p) THEN p
    ELSE IF ~(0 <= height /\ height <= 120) THEN Raise(p, "ValueError")
    ELSE command_body(
             WriteFooter(break_body(p),
                         <<"comment", "Setting height offset to register", register>>),
             <<"M660", register, height>>)

\* __define_tool_offset(offset, tool_number)
define_tool_offset(p, offset, tool_number) ==
    IF Failed(p) THEN p
    ELSE IF Len(offset) # 3 THEN Raise(p, "ValueError")
    ELSE IF ~(0 <= offset[1] /\ offset[1] <= 200) THEN Raise(p, "ValueError")
    ELSE IF ~(0 <= offset[2] /\ offset[2] <= 200) THEN Raise(p, "ValueError")
    ELSE IF ~(0 <= offset[3] /\ offset[3] <= 120) THEN Raise(p, "ValueError")
    ELSE body_lines(p, << <<"break">>, <<"comment", "Setting tool offset.">>,
                          <<"M6", tool_number_m_command(tool_number), tool_number + 1,
                            offset[1], offset[2], offset[3]>> >>)

\* The largest pulse count of one prime or unprime program.
MaxPulses == 65535

\* The lines of __configure_prime (opcode M722) and __configure_unprime
\* (opcode M721) once the pulse count is accepted.
prime_lines(opcode, label, now, pulse_rate, number_of_pulses, dwell_time, is_executed_immediately, tool_number) ==
    << <<"break">>, <<"comment", label>>,
       <<opcode, tool_number_m_command(tool_number), pulse_rate, number_of_pulses, dwell_time>>,
       <<"G4P", 1>> >>
    \o (IF is_executed_immediately
        THEN << <<"comment", now>>, <<opcode, "I", tool_number_m_command(tool_number), 1>>,
                <<"G4P", 1>> >>
        ELSE <<>>)

\* __configure_prime(pulse_rate, number_of_pulses, dwell_time,
\* is_executed_immediately, tool_number)
configure_prime(p, pulse_rate, number_of_pulses, dwell_time, is_executed_immediately, tool_number) ==
    IF Failed(p) THEN p
    ELSE IF ~(0 <= number_of_pulses /\ number_of_pulses <= MaxPulses) THEN Raise(p, "ValueError")
    ELSE body_lines(p, prime_lines("M722", "Configuring priming.", "Priming now.", pulse_rate,
                                   number_of_pulses, dwell_time, is_executed_immediately,
                                   tool_number))

\* __configure_unprime(pulse_rate, number_of_pulses, dwell_time,
\* is_executed_immediately, tool_number)
configure_unprime(p, pulse_rate, number_of_pulses, dwell_time, is_executed_immediately, tool_number) ==
    IF Failed(p) THEN p
    ELSE IF ~(0 <= number_of_pulses /\ number_of_pulses <= MaxPulses) THEN Raise(p, "ValueError")
    ELSE body_lines(p, prime_lines("M721", "Configuring unpriming.", "Unpriming now.", pulse_rate,
                                   number_of_pulses, dwell_time, is_executed_immediately,
                                   tool_number))

\* __disable_priming(tool_number)
disable_priming(p, tool_number) == configure_prime(p, 0, 0, 0, FALSE, tool_number)

\* __disable_unpriming(tool_number)
disable_unpriming(p, tool_number) == configure_unprime(p, 0, 0, 0, FALSE, tool_number)

\* __generate_secondary_header
generate_secondary_header(p) ==
    header_lines(p, << <<"break">>,
                       <<"comment", "This file was generated for use with a Hyrel printer.">>,
                       IF is_native_hyrel(p)
                       THEN <<"comment", "Extrusion using on Hyrel's native calculation">>
                       ELSE <<"comment", "Extrusion using constant flow and variable width and speed">>,
                       <<"comment", "Default printing tool", p.tool_number>>,
                       <<"comment", "Path width", p.print_width>>,
                       <<"comment", "First layer height", p.first_layer_thickness>>,
                       <<"comment", "Layer thickness", p.layer_thickness>>,
                       <<"comment", "Ensure that your printer is compatible with the resulting gcode.">>,
                       <<"break">> >>)

\* The displacement of one line of a raster along x.
line_displacement(length, is_going_in_positive_x) ==
    IF is_going_in_positive_x THEN <<length, 0>> ELSE <<0 - length, 0>>

\* The loop of generate_zig_zag_pattern (hyrel_printer.py 268-274).
RECURSIVE zig_zag_lines(_, _, _, _, _)
zig_zag_lines(p, n_lines, l_lines, line_spacing, is_going_in_positive_x) ==
    IF Failed(p) \/ n_lines <= 0 THEN p
    ELSE zig_zag_lines(
             printing_move_relative(
                 printing_move_relative(p, line_displacement(l_lines, is_going_in_positive_x), None),
                 <<0, line_spacing>>, None),
             n_lines - 1, l_lines, line_spacing, ~is_going_in_positive_x)

\* hyrel_printer.py 265
zig_zag_start(p, start_position) ==
    IF IsNone(start_position) THEN p ELSE non_printing_move(p, Val(start_position), None)

\* generate_zig_zag_pattern(start_position, n_lines, l_lines, line_spacing,
\* is_going_in_positive_x), the height left at its default
generate_zig_zag_pattern(p, start_position, n_lines, l_lines, line_spacing, is_going_in_positive_x) ==
    zig_zag_lines(
        z_move(zig_zag_start(comment_body(p, "Generating a zig-zag pattern"), start_position),
               p.first_layer_thickness, None),
        n_lines, l_lines, line_spacing, is_going_in_positive_x)

\* One line more than the whole lines the budget fills.
priming_line_count_over(prime_pulses) == prime_pulses \div MaxPulses + 1

\* math.ceil(prime_pulses / 65535)
priming_line_count(prime_pulses) ==
    IF prime_pulses <= 0 THEN 0 - ((0 - prime_pulses) \div MaxPulses)
    ELSE (prime_pulses + MaxPulses - 1) \div MaxPulses

\* int(prime_pulses / priming_lines)
pulses_per_line(prime_pulses, priming_lines) == prime_pulses \div priming_lines

\* min(self._print_speed, 60 * length / single_line_time), where
\* single_line_time = (prime_pulses / priming_lines) / prime_rate.
priming_speed(p, length, prime_pulses, priming_lines, prime_rate) ==
    Min2(p.print_speed, (60 * length * prime_rate * priming_lines) \div prime_pulses)

\* The loop of __prime_now (hyrel_printer.py 301-304).
RECURSIVE priming_loop(_, _, _, _, _, _)
priming_loop(p, n, length, line_spacing, speed, is_going_in_positive_x) ==
    IF Failed(p) \/ n <= 0 THEN p
    ELSE priming_loop(
             non_printing_move_relative(
                 printing_move_relative(p, line_displacement(length, is_going_in_positive_x),
                                        Some(speed)),
                 <<0, line_spacing>>, None),
             n - 1, length, line_spacing, speed, ~is_going_in_positive_x)

\* is_going_in_positive_x after n lines.
RECURSIVE direction_after(_, _)
direction_after(is_going_in_positive_x, n) ==
    IF n <= 0 THEN is_going_in_positive_x ELSE direction_after(~is_going_in_positive_x, n - 1)

\* __prime_now(length, prime_pulses, prime_rate, line_spacing) from the origin
\* and going in positive x first: the encoder after it.  It returns
\* direction_after(TRUE, priming_lines) and priming_lines.
prime_now(p, length, prime_pulses, prime_rate, line_spacing) ==
    IF Failed(p) THEN p
    ELSE IF priming_line_count(prime_pulses) = 0 \/ prime_rate = 0
    THEN Raise(p, "ZeroDivisionError")
    ELSE TheOnly(
             { comment_body(
                   disable_priming(
                       priming_loop(
                           non_printing_move(configured, <<0, 0, p.current_position[3]>>, None),
                           priming_line_count(prime_pulses), length, line_spacing,
                           priming_speed(p, length, prime_pulses,
                                         priming_line_count(prime_pulses), prime_rate),
                           TRUE),
                       p.tool_number),
                   "Priming complete.") :
               configured \in
                 { configure_prime(
                       disable_unpriming(
                           body_lines(p, << <<"break">>,
                                            <<"comment", "Starting initial priming.">> >>),
                           p.tool_number),
                       prime_rate,
                       pulses_per_line(prime_pulses, priming_line_count(prime_pulses)),
                       0, FALSE, p.tool_number) } })

\* The length of one un-priming lift (hyrel_printer.py 310).
UnprimeLength == 10

\* The loop of __unprime_now (hyrel_printer.py 323-325).
RECURSIVE unpriming_loop(_, _, _, _, _)
unpriming_loop(p, n, prime_rate, pulses, speed) ==
    IF Failed(p) \/ n <= 0 THEN p
    ELSE unpriming_loop(
             z_move_incremental(
                 configure_unprime(p, prime_rate, pulses, 0, TRUE, p.tool_number),
                 UnprimeLength, Some(speed)),
             n - 1, prime_rate, pulses, speed)

\* __unprime_now() with its defaults
unprime_now(p) ==
    IF Failed(p) THEN p
    ELSE IF priming_line_count(p.priming_pulses) = 0 \/ p.unpriming_rate = 0
    THEN Raise(p, "ZeroDivisionError")
    ELSE TheOnly(
             { comment_body(
                   disable_unpriming(
                       unpriming_loop(
                           homed, priming_line_count(p.priming_pulses), p.unpriming_rate,
                           pulses_per_line(p.priming_pulses,
                                           priming_line_count(p.priming_pulses)),
                           priming_speed(p, UnprimeLength, p.priming_pulses,
                                         priming_line_count(p.priming_pulses),
                                         p.unpriming_rate)),
                       p.tool_number),
                   "Unpriming complete.") :
               homed \in {home_2d(comment_body(p, "Starting unpriming."))} })

\* _configure_offsets
configure_offsets(p) ==
    define_height_offset(
        non_printing_move(body_lines(p, << <<"break">>, <<"comment", "Invoking offsets.">> >>),
                          <<0, 0>>, None),
        p.first_layer_thickness, p.height_offset_register)

\* The cleaning whose zig-zag starts in positive x whatever the priming left.
clean_with_priming_restarting(p) ==
    TheOnly(
        { comment_body(
              generate_zig_zag_pattern(
                  primed, None, p.cleaning_lines - priming_line_count(p.priming_pulses),
                  p.cleaning_length, p.print_width * 2, TRUE),
              "Cleaning with priming complete.") :
          primed \in
            { prime_now(z_move(p, p.first_layer_thickness, None), p.cleaning_length,
                        p.priming_pulses, p.priming_rate, p.print_width * 2) } })

\* _clean_with_priming
clean_with_priming(p) ==
    TheOnly(
        { comment_body(
              generate_zig_zag_pattern(
                  primed, None, p.cleaning_lines - priming_line_count(p.priming_pulses),
                  p.cleaning_length, p.print_width * 2,
                  direction_after(TRUE, priming_line_count(p.priming_pulses))),
              "Cleaning with priming complete.") :
          primed \in
            { prime_now(z_move(p, p.first_layer_thickness, None), p.cleaning_length,
                        p.priming_pulses, p.priming_rate, p.print_width * 2) } })

\* _configure_uv_pen(pen_tool_number, uv_duty_cycle, head_tool_number)
configure_uv_pen(p, pen_tool_number, uv_duty_cycle, head_tool_number) ==
    body_lines(p, << <<"break">>, <<"comment", "Linking the UV pen", head_tool_number>>,
                     <<"M703", tool_number_m_command(pen_tool_number),
                       tool_number_m_command(head_tool_number)>>,
                     <<"M620", tool_number_m_command(pen_tool_number), 1>>,
                     <<"M621", tool_number_m_command(pen_tool_number), uv_duty_cycle>> >>)

\* _configure_uv_array(uv_duty_cycle, head_tool_number)
configure_uv_array(p, uv_duty_cycle, head_tool_number) ==
    IF Failed(p) THEN p
    ELSE IF ~(0 <= uv_duty_cycle /\ uv_duty_cycle <= 100) THEN Raise(p, "ValueError")
    ELSE body_lines(p, << <<"break">>, <<"comment", "Setting UV array duty cycle.">>,
                          <<"M106", tool_number_m_command(head_tool_number), uv_duty_cycle>> >>)

\* The setup with the tool selected before the flow is configured.
initial_configuration_tool_first(p, tool_offset) ==
    TheOnly(
        { break_body(
              comment_body(configure_uv_array(cleaned, p.uv_duty_cycle, p.tool_number),
                           "Initial Hyrel configuration complete.")) :
          cleaned \in
            { clean_with_priming(configure_flow(select_tool(heated, p.tool_number))) :
              heated \in
                { disable_unpriming(
                      disable_priming(
                          set_bed_temperature(
                              set_nozzle_temperature(homed, p.nozzle_temperature, p.tool_number),
                              p.bed_temperature),
                          p.tool_number),
                      p.tool_number) :
                  homed \in
                    { define_tool_offset(home_2d(clear_offsets(set_units_to_millimetres(p))),
                                         tool_offset, p.tool_number) } } } })

\* _initial_configuration(tool_offset): units, offsets, homing and tool
\* offset; then the temperatures and the prime programs; then flow and tool;
\* then cleaning; then the curing output.
initial_configuration(p, tool_offset) ==
    TheOnly(
        { break_body(
              comment_body(configure_uv_array(cleaned, p.uv_duty_cycle, p.tool_number),
                           "Initial Hyrel configuration complete.")) :
          cleaned \in
            { clean_with_priming(select_tool(configure_flow(heated), p.tool_number)) :
              heated \in
                { disable_unpriming(
                      disable_priming(
                          set_bed_temperature(
                              set_nozzle_temperature(homed, p.nozzle_temperature, p.tool_number),
                              p.bed_temperature),
                          p.tool_number),
                      p.tool_number) :
                  homed \in
                    { define_tool_offset(home_2d(clear_offsets(set_units_to_millimetres(p))),
                                         tool_offset, p.tool_number) } } } })

\* hyrel_printer.py 105
hyrel_initialised(p) == IF Failed(p) THEN p ELSE [p EXCEPT !.is_hyrel_initialised = TRUE]

\* HyrelPrinter._init
hyrel_init(p) ==
    hyrel_initialised(initial_configuration(generate_secondary_header(p), p.tool_offset))

\* The teardown with the motors turned off before homing.
finish_print_motors_first(p) ==
    TheOnly(
        { signal_finished_print(
              home_2d(
                  turn_motors_off(
                      set_nozzle_temperature(set_bed_temperature(unprimed, 0), 0,
                                             p.tool_number)))) :
          unprimed \in {unprime_now(p)} })

\* _finish_print
finish_print(p) ==
    TheOnly(
        { signal_finished_print(
              turn_motors_off(
                  home_2d(
                      set_nozzle_temperature(set_bed_temperature(unprimed, 0), 0,
                                             p.tool_number)))) :
          unprimed \in {unprime_now(p)} })

\* hyrel_printer.py 402, r being what BasePrinter.export returned.
hyrel_exported(r) ==
    [printer  |-> IF Failed(r.printer) THEN r.printer
                  ELSE [r.printer EXCEPT !.is_hyrel_initialised = FALSE],
     artifact |-> r.artifact]

\* HyrelPrinter.export
hyrel_export(p, header_supplement, body_supplement, footer_supplement) ==
    TheOnly({ hyrel_exported(export(finished, header_supplement, body_supplement,
                                    footer_supplement)) :
              finished \in {finish_print(p)} })

---------------------------------------------------------------------------
(* Construction.  cfg holds the arguments of the constructor.              *)

\* BasePrinter.__init__ up to _generate_header, and the fields
\* HyrelPrinter.__init__ sets.
new_printer(cfg) ==
    [kind                     |-> cfg.kind,
     print_speed              |-> cfg.print_speed,
     non_print_speed          |-> cfg.non_print_speed,
     print_width              |-> cfg.print_width,
     layer_thickness          |-> cfg.layer_thickness,
     first_layer_thickness    |-> IF IsNone(cfg.first_layer_height) THEN cfg.layer_thickness
                                  ELSE Val(cfg.first_layer_height),
     filament_cross_section   |-> filament_cross_section(cfg.filament_diameter),
     reference_cross_section  |-> cross_section(cfg.print_width * WidthScale, cfg.layer_thickness),
     header                   |-> <<>>,
     body                     |-> <<>>,
     footer                   |-> <<>>,
     closed                   |-> FALSE,
     stored                   |-> TRUE,
     current_position         |-> <<0, 0, 0>>,
     print_time               |-> 0,
     print_distance           |-> 0,
     non_print_distance       |-> 0,
     extrusion_distance       |-> 0,
     total_extrusion_distance |-> 0,
     physical_pixel_size      |-> cfg.physical_pixel_size,
     lift_off_distance        |-> cfg.lift_off_distance,
     lift_off_height          |-> cfg.lift_off_height,
     extrusion_multiplier     |-> cfg.extrusion_multiplier,
     extrusion_control_type   |-> cfg.extrusion_control_type,
     is_volumetric            |-> cfg.is_volumetric,
     retraction_length        |-> cfg.retraction_length,
     retraction_rate          |-> cfg.retraction_rate,
     is_extrusion_on_off      |-> cfg.extrusion_control_type = HYREL_NATIVE,
     is_extrusion_absolute    |-> cfg.extrusion_control_type \in EXT_WITH_ABS_E,
     is_width_variable        |-> cfg.extrusion_control_type \in EXT_WITH_VAR_W,
     is_speed_variable        |-> cfg.extrusion_control_type \in EXT_WITH_VAR_SPEED,
     x_limit                  |-> cfg.x_limit,
     y_limit                  |-> cfg.y_limit,
     z_limit                  |-> cfg.z_limit,
     \* the fields of HyrelPrinter
     tool_offset              |-> cfg.tool_offset,
     tool_number              |-> cfg.tool_number,
     priming_pulses           |-> cfg.priming_pulses,
     bed_temperature          |-> cfg.bed_temperature,
     nozzle_temperature       |-> cfg.nozzle_temperature,
     uv_duty_cycle            |-> cfg.uv_duty_cycle,
     pulses_per_ul            |-> cfg.pulses_per_ul,
     hyrel_extrusion_multiplier |-> cfg.extrusion_multiplier,
     priming_rate             |-> cfg.priming_rate,
     unpriming_rate           |-> IF IsNone(cfg.unpriming_rate) THEN cfg.priming_rate
                                  ELSE Val(cfg.unpriming_rate),
     cleaning_lines           |-> cfg.cleaning_lines,
     cleaning_length          |-> cfg.cleaning_length,
     height_offset_register   |-> cfg.height_offset_register,
     is_hyrel_initialised     |-> FALSE,
     \* the exception the running call raised, and the histories of the model
     err                      |-> "",
     layer_calls              |-> <<>>,
     hook_calls               |-> <<>>,
     extruded                 |-> 0,
     filament_diameter        |-> cfg.filament_diameter]

\* BasePrinter(...)
BasePrinter(cfg) == generate_header(new_printer(cfg))

\* HyrelPrinter(...): the constructor of the base class runs _init.
HyrelPrinter(cfg) == hyrel_init(BasePrinter(cfg))

---------------------------------------------------------------------------
(* The sessions of the model: configurations, patterns and the arguments   *)
(* of the calls.                                                           *)

\* The defaults of BasePrinter.__init__ and HyrelPrinter.__init__.
DefaultConfig ==
    [kind |-> "base", print_speed |-> 60, non_print_speed |-> 120, print_width |-> 1,
     layer_thickness |-> 1, first_layer_height |-> None, physical_pixel_size |-> None,
     lift_off_distance |-> Some(10), lift_off_height |-> 2, extrusion_multiplier |-> 1,
     filament_diameter |-> 175, extrusion_control_type |-> EXT_REL_CONST,
     is_volumetric |-> FALSE,
     retraction_length |-> None, retraction_rate |-> None,
     x_limit |-> None, y_limit |-> None, z_limit |-> None,
     tool_offset |-> <<0, 0, 0>>, tool_number |-> 0, priming_pulses |-> 80000,
     bed_temperature |-> 0, nozzle_temperature |-> 0, uv_duty_cycle |-> 0,
     pulses_per_ul |-> 1297, priming_rate |-> 10000, unpriming_rate |-> None,
     cleaning_lines |-> 16, cleaning_length |-> 20, height_offset_register |-> 2]

\* A base encoder with lift-off and no travel limits.
PlainConfig == [DefaultConfig EXCEPT !.lift_off_distance = Some(5)]

\* An encoder with travel limits, retraction and absolute variable width, as
\* PrusaPrinter configures one.
LimitedConfig ==
    [DefaultConfig EXCEPT !.lift_off_distance = Some(5), !.lift_off_height = 1,
                          !.extrusion_control_type = EXT_ABS_VAR,
                          !.retraction_length = Some(1), !.retraction_rate = Some(1500),
                          !.x_limit = Some(12), !.y_limit = Some(12), !.z_limit = Some(4)]

\* An encoder without lift-off, with a first layer height of its own.
NoLiftConfig ==
    [DefaultConfig EXCEPT !.lift_off_distance = None, !.first_layer_height = Some(2),
                          !.extrusion_control_type = EXT_ABS_CONST,
                          !.x_limit = Some(12), !.y_limit = Some(12), !.z_limit = Some(8)]

\* The Hyrel adapter as main.py configures it, with a short cleaning sequence.
HyrelConfig ==
    [DefaultConfig EXCEPT !.kind = "hyrel", !.print_speed = 240, !.non_print_speed = 1200,
                          !.extrusion_control_type = HYREL_NATIVE,
                          !.tool_number = 1, !.nozzle_temperature = 80, !.uv_duty_cycle = 50,
                          !.tool_offset = <<100, 90, 0>>, !.cleaning_lines = 3]

BaseConfigs == {PlainConfig, LimitedConfig, NoLiftConfig}

\* An encoder of each extrusion control type, with a multiplier, a layer
\* thickness and a filament of its own; and one of the volumetric policy.
MeteringConfig(type) ==
    [DefaultConfig EXCEPT !.extrusion_control_type = type,
                          !.extrusion_multiplier = 1 + (type % 2),
                          !.layer_thickness = 1 + (type % 3),
                          !.filament_diameter = IF type < 4 THEN 175 ELSE 285]

MeteringConfigs ==
    {MeteringConfig(type) : type \in HYREL_NATIVE..EXT_REL_VAR_SPEED}
    \cup {[MeteringConfig(EXT_REL_VAR_SPEED) EXCEPT !.is_volumetric = TRUE]}

\* The targets and the widths, in 1/WidthScale mm, handed to
\* _printing_move_variable_width.
MeteredArgs == {<<2, 0>>, <<3, 4>>, <<0, 3, 1>>} \X {WidthScale - 1, WidthScale, 2 * WidthScale}

\* Three layers of one path each, one pixel per print width.
PatternA ==
    Pattern(1, "A", << Layer(<<PrintPath(<<<<0, 0>>, <<3, 0>>>>, None)>>),
                       Layer(<<PrintPath(<<<<0, 1>>, <<3, 1>>, <<3, 4>>>>, None)>>),
                       Layer(<<PrintPath(<<<<1, 2>>, <<1, 0>>>>, None)>>) >>)

\* Two layers of two paths each with overlap data, two pixels per print width.
PatternB ==
    Pattern(2, "B", << Layer(<<PrintPath(<<<<0, 0>>, <<4, 0>>>>, Some(<<0, 1>>)),
                               PrintPath(<<<<16, 0>>, <<16, 6>>>>, Some(<<2, 0>>))>>),
                       Layer(<<PrintPath(<<<<2, 2>>, <<2, 6>>>>, Some(<<1, 1>>)),
                               PrintPath(<<<<4, 6>>, <<4, 2>>>>, Some(<<0, 0>>))>>) >>)

Patterns == {PatternA, PatternB}

\* The layer counts handed to slice_pattern.
LayerArgs == {0 - 1, 0} \cup (1..MaxLayers)

\* The offsets handed to slice_pattern.
OffsetArgs == {None, Some(<<2, 1>>)}

\* The targets handed to _non_printing_move.
MoveTargets ==
    {<<3, 4>>, <<6, 0>>, <<0 - 1, 0>>, <<13, 0>>, <<1, 1, 1>>, <<0, 0, 3>>, <<0, 0, 9>>}

\* The targets and widths handed to _printing_move.
PrintArgs == {<<<<2, 0>>, None>>, <<<<0, 3, 1>>, None>>, <<<<2, 2>>, Some(2)>>}

\* The header, body and footer supplements handed to export.
SupplementArgs ==
    { <<None, None, None>>,
      <<None, Some("body supplement"), None>>,
      <<Some("header supplement"), Some("body supplement"), Some("footer supplement")>> }

---------------------------------------------------------------------------
(* The calls of a session.  last records the call just made: its name and  *)
(* arguments, the exception it raised ("" for none), and the encoder and   *)
(* the caller's pattern as they were before it.                            *)

Recorded(op, args, p) ==
    /\ printer' = [p EXCEPT !.err = ""]
    /\ last' = [op |-> op, args |-> args, err |-> p.err, calls |-> last.calls + 1,
                pre |-> printer, pat |-> pattern]
    /\ UNCHANGED peer

Called(op, args, p) ==
    /\ last.calls < MaxCalls
    /\ Recorded(op, args, p)

Start(p, pat) ==
    /\ printer = p
    /\ pattern = pat
    /\ artifact = None
    /\ peer = None
    /\ last = [op |-> "", args |-> <<>>, err |-> "", calls |-> 0, pre |-> p, pat |-> pat]

Init == \E cfg \in BaseConfigs, pat \in Patterns : Start(BasePrinter(cfg), pat)

InitHyrel == \E pat \in Patterns : Start(HyrelPrinter(HyrelConfig), pat)

SlicePatternCall ==
    \E layers \in LayerArgs, offset \in OffsetArgs :
        LET r == slice_pattern([printer EXCEPT !.layer_calls = <<>>, !.hook_calls = <<>>], pattern, layers, offset)
        IN  /\ Called("slice_pattern", <<layers, offset>>, r.printer)
            /\ pattern' = r.pattern
            /\ UNCHANGED artifact

NonPrintingMoveCall ==
    \E position \in MoveTargets :
        /\ Called("non_printing_move", <<position>>, non_printing_move(printer, position, None))
        /\ UNCHANGED <<pattern, artifact>>

PrintingMoveCall ==
    \E a \in PrintArgs :
        /\ Called("printing_move", a, printing_move(printer, a[1], None, a[2]))
        /\ UNCHANGED <<pattern, artifact>>

ExportCall ==
    \E sup \in SupplementArgs :
        LET r == export(printer, sup[1], sup[2], sup[3])
        IN  /\ Called("export", sup, r.printer)
            /\ artifact' = IF Failed(r.printer) THEN artifact ELSE r.artifact
            /\ UNCHANGED pattern

Next == SlicePatternCall \/ NonPrintingMoveCall \/ PrintingMoveCall \/ ExportCall

Spec == Init /\ [][Next]_vars

---------------------------------------------------------------------------
(* Sessions of printing moves and exports alone, long enough for a         *)
(* printing move after an export and an export after that.                 *)

ExtrusionMoveCall ==
    \E a \in PrintArgs :
        /\ last.calls < MaxMoves
        /\ Recorded("printing_move", a, printing_move(printer, a[1], None, a[2]))
        /\ UNCHANGED <<pattern, artifact>>

ExtrusionExportCall ==
    \E sup \in SupplementArgs :
        LET r == export(printer, sup[1], sup[2], sup[3])
        IN  /\ last.calls < MaxMoves
            /\ Recorded("export", sup, r.printer)
            /\ artifact' = IF Failed(r.printer) THEN artifact ELSE r.artifact
            /\ UNCHANGED pattern

NextExtrusion == ExtrusionMoveCall \/ ExtrusionExportCall

SpecExtrusion == Init /\ [][NextExtrusion]_vars

---------------------------------------------------------------------------
(* Sessions of printing moves and exports on a file system that may fail.  *)

FaultyExportCall ==
    \E sup \in SupplementArgs, fault \in ExportFaults :
        LET r == export_under(printer, fault, sup[1], sup[2], sup[3])
        IN  /\ last.calls < MaxMoves
            /\ Recorded("export", <<sup[1], sup[2], sup[3], fault>>, r.printer)
            /\ artifact' = IF IsNone(r.artifact) THEN artifact ELSE r.artifact
            /\ UNCHANGED pattern

---------------------------------------------------------------------------
(* Sessions of printing moves of a given width and exports, on encoders of *)
(* every metering.                                                         *)

InitMetering == \E cfg \in MeteringConfigs : Start(BasePrinter(cfg), PatternA)

MeteredMoveCall ==
    \E a \in MeteredArgs :
        /\ last.calls < MaxMoves
        /\ Recorded("printing_move_variable_width", a,
                    printing_move_variable_width(printer, a[1], a[2], None))
        /\ UNCHANGED <<pattern, artifact>>

NextMetering == MeteredMoveCall \/ ExtrusionExportCall

SpecMetering == InitMetering /\ [][NextMetering]_vars

NextStorage == ExtrusionMoveCall \/ FaultyExportCall

SpecStorage == Init /\ [][NextStorage]_vars

---------------------------------------------------------------------------
(* A session of the Hyrel adapter: slice_pattern, export and the stages of *)
(* the adapter, each called with values inside and outside its range.      *)

HyrelLayerArgs == 1..MaxLayers

ToolArgs == {0 - 1, 3, 4}

HeightArgs == {0 - 1, 120, 121}

ToolOffsetArgs == {<<200, 200, 120>>, <<201, 0, 0>>, <<0, 0 - 1, 0>>, <<0, 0, 121>>}

PulseArgs == {0 - 1, MaxPulses, MaxPulses + 1}

DutyArgs == {0 - 1, 100, 101}

\* The tool position of the UV pen.
PenTool == 2

HyrelSlicePatternCall ==
    \E layers \in HyrelLayerArgs, offset \in OffsetArgs :
        LET r == slice_pattern([printer EXCEPT !.layer_calls = <<>>, !.hook_calls = <<>>], pattern, layers, offset)
        IN  /\ Called("slice_pattern", <<layers, offset>>, r.printer)
            /\ pattern' = r.pattern
            /\ UNCHANGED artifact

HyrelExportCall ==
    \E sup \in SupplementArgs :
        LET r == hyrel_export(printer, sup[1], sup[2], sup[3])
        IN  /\ Called("export", sup, r.printer)
            /\ artifact' = IF Failed(r.printer) THEN artifact ELSE r.artifact
            /\ UNCHANGED pattern

SelectToolCall ==
    /\ \E tool_number \in ToolArgs :
          Called("select_tool", <<tool_number>>, select_tool(printer, tool_number))
    /\ UNCHANGED <<pattern, artifact>>

DefineHeightOffsetCall ==
    /\ \E height \in HeightArgs :
          Called("define_height_offset", <<height>>,
                 define_height_offset(printer, height, printer.height_offset_register))
    /\ UNCHANGED <<pattern, artifact>>

DefineToolOffsetCall ==
    /\ \E offset \in ToolOffsetArgs :
          Called("define_tool_offset", <<offset>>,
                 define_tool_offset(printer, offset, printer.tool_number))
    /\ UNCHANGED <<pattern, artifact>>

ConfigurePrimeCall ==
    /\ \E number_of_pulses \in PulseArgs :
          Called("configure_prime", <<number_of_pulses>>,
                 configure_prime(printer, printer.priming_rate, number_of_pulses, 0, TRUE,
                                 printer.tool_number))
    /\ UNCHANGED <<pattern, artifact>>

ConfigureUnprimeCall ==
    /\ \E number_of_pulses \in PulseArgs :
          Called("configure_unprime", <<number_of_pulses>>,
                 configure_unprime(printer, printer.unpriming_rate, number_of_pulses, 0, TRUE,
                                   printer.tool_number))
    /\ UNCHANGED <<pattern, artifact>>

ConfigureUvPenCall ==
    /\ \E uv_duty_cycle \in DutyArgs :
          Called("configure_uv_pen", <<uv_duty_cycle>>,
                 configure_uv_pen(printer, PenTool, uv_duty_cycle, printer.tool_number))
    /\ UNCHANGED <<pattern, artifact>>

ConfigureUvArrayCall ==
    /\ \E uv_duty_cycle \in DutyArgs :
          Called("configure_uv_array", <<uv_duty_cycle>>,
                 configure_uv_array(printer, uv_duty_cycle, printer.tool_number))
    /\ UNCHANGED <<pattern, artifact>>

NextHyrel ==
    \/ HyrelSlicePatternCall
    \/ HyrelExportCall
    \/ SelectToolCall
    \/ DefineHeightOffsetCall
    \/ DefineToolOffsetCall
    \/ ConfigurePrimeCall
    \/ ConfigureUnprimeCall
    \/ ConfigureUvPenCall
    \/ ConfigureUvArrayCall

SpecHyrel == InitHyrel /\ [][NextHyrel]_vars

\* A session of the Hyrel adapter through its public calls only.
NextHyrelSession == HyrelSlicePatternCall \/ HyrelExportCall

SpecHyrelSession == InitHyrel /\ [][NextHyrelSession]_vars

---------------------------------------------------------------------------
(* Sessions of the Hyrel adapter built with a priming budget at, below and *)
(* above the whole multiples of the largest pulse count.                   *)

PrimingBudgets ==
    {1, MaxPulses, MaxPulses + 1, 2 * MaxPulses, 2 * MaxPulses + 1, 150000, 3 * MaxPulses}

InitPriming ==
    \E budget \in PrimingBudgets :
        Start(HyrelPrinter([HyrelConfig EXCEPT !.priming_pulses = budget]), PatternA)

SpecPriming == InitPriming /\ [][NextHyrelSession]_vars

----------------------------------------------------------------------------
(* Sessions of a Hyrel adapter constructed with a tool number in and out   *)
(* of [0, 4): HyrelPrinter.__init__ stores the number, and _init runs the   *)
(* setup with it.                                                          *)

\* The tool numbers the adapter is constructed with.
ToolNumbers == {0 - 1, 0, 3, 4, 7}

InitTooling ==
    \E tool_number \in ToolNumbers, pat \in Patterns :
        Start(BasePrinter([HyrelConfig EXCEPT !.tool_number = tool_number]), pat)

HyrelInitCall ==
    /\ Called("_init", <<>>, hyrel_init(printer))
    /\ UNCHANGED <<pattern, artifact>>

NextTooling == HyrelInitCall \/ SelectToolCall \/ ConfigureUvArrayCall

SpecTooling == InitTooling /\ [][NextTooling]_vars

----------------------------------------------------------------------------
(* Sessions of two encoders constructed one after the other before either  *)
(* is exported: printer is the first and peer holds the second with the    *)
(* artifact it exported.  The sessions are short, so what an instance      *)
(* writes stays in the buffers of its file objects until it closes them.   *)

InstanceConfigs == {PlainConfig, LimitedConfig}

InitInstances ==
    \E cfg \in InstanceConfigs, peer_cfg \in InstanceConfigs :
        /\ printer = BasePrinter(cfg)
        /\ peer = [printer |-> BasePrinter(peer_cfg), artifact |-> None]
        /\ pattern = PatternA
        /\ artifact = None
        /\ last = [op |-> "", args |-> <<>>, err |-> "", calls |-> 0, pre |-> printer,
                   pat |-> pattern, via |-> ""]

\* A call made through one of the two instances.
Through(via, op, args, pre, p) ==
    /\ last.calls < MaxMoves
    /\ last' = [op |-> op, args |-> args, err |-> p.err, calls |-> last.calls + 1,
                pre |-> pre, pat |-> pattern, via |-> via]
    /\ UNCHANGED pattern

FirstMoveCall ==
    \E a \in PrintArgs :
        /\ Through("first", "printing_move", a, printer, printing_move(printer, a[1], None, a[2]))
        /\ printer' = [printing_move(printer, a[1], None, a[2]) EXCEPT !.err = ""]
        /\ UNCHANGED <<artifact, peer>>

PeerMoveCall ==
    \E a \in PrintArgs :
        /\ Through("peer", "printing_move", a, peer.printer, printing_move(peer.printer, a[1], None, a[2]))
        /\ peer' = [peer EXCEPT !.printer = [printing_move(peer.printer, a[1], None, a[2]) EXCEPT !.err = ""]]
        /\ UNCHANGED <<artifact, printer>>

FirstExportCall ==
    LET r == export_shared(printer, None, None, None)
    IN  /\ Through("first", "export", <<>>, printer, r.printer)
        /\ printer' = [r.printer EXCEPT !.err = ""]
        /\ artifact' = IF IsNone(r.artifact) THEN artifact ELSE r.artifact
        /\ peer' = IF Failed(r.printer) THEN peer
                   ELSE [peer EXCEPT !.printer = removed_under(peer.printer)]

PeerExportCall ==
    LET r == export_shared(peer.printer, None, None, None)
    IN  /\ Through("peer", "export", <<>>, peer.printer, r.printer)
        /\ peer' = [printer  |-> [r.printer EXCEPT !.err = ""],
                    artifact |-> IF IsNone(r.artifact) THEN peer.artifact ELSE r.artifact]
        /\ printer' = IF Failed(r.printer) THEN printer ELSE removed_under(printer)
        /\ UNCHANGED artifact

NextInstances == FirstMoveCall \/ PeerMoveCall \/ FirstExportCall \/ PeerExportCall

SpecInstances == InitInstances /\ [][NextInstances]_vars

---------------------------------------------------------------------------
(* Sessions of the moves slice_pattern is made of, called one by one on    *)
(* encoders with and without travel limits: slice_layer on a layer of the  *)
(* caller's pattern, travel and Z moves, printing moves with a width, and  *)
(* slice_pattern with an offset that carries the pattern past the limits.  *)

\* An encoder whose pixel size was given at construction, with variable
\* width and speed.
SizedConfig ==
    [PlainConfig EXCEPT !.physical_pixel_size = Some(<<1, 1>>),
                        !.extrusion_control_type = EXT_REL_VAR_SPEED]

\* An encoder given a retraction length and no retraction rate.
UnratedConfig == [PlainConfig EXCEPT !.retraction_length = Some(1)]

LayerConfigs == {LimitedConfig, NoLiftConfig, SizedConfig, UnratedConfig}

\* The layer counts and the offsets handed to slice_pattern.
LimitSliceArgs == {1, 3, MaxLayers} \X {None, Some(<<6, 9>>)}

\* The heights handed to _z_move.
ZMoveArgs == {1, 5}

\* The targets and widths, in 1/WidthScale mm, handed to _printing_move.
VertexArgs ==
    {<<<<13, 0>>, None>>, <<<<2, 2>>, Some(2)>>, <<<<2, 0 - 1, 1>>, Some(WidthScale)>>}

InitLayers == \E cfg \in LayerConfigs, pat \in Patterns : Start(BasePrinter(cfg), pat)

SliceLayerCall ==
    \E i \in 1..Len(pattern.layers) :
        /\ Called("slice_layer", <<i>>, slice_layer(printer, pattern.layers[i], None))
        /\ UNCHANGED <<pattern, artifact>>

LimitSliceCall ==
    \E a \in LimitSliceArgs :
        LET r == slice_pattern([printer EXCEPT !.layer_calls = <<>>, !.hook_calls = <<>>],
                               pattern, a[1], a[2])
        IN  /\ Called("slice_pattern", a, r.printer)
            /\ pattern' = r.pattern
            /\ UNCHANGED artifact

ZMoveCall ==
    \E height \in ZMoveArgs :
        /\ Called("z_move", <<height>>, z_move(printer, height, None))
        /\ UNCHANGED <<pattern, artifact>>

VertexCall ==
    \E a \in VertexArgs :
        /\ Called("printing_move", a, printing_move(printer, a[1], None, a[2]))
        /\ UNCHANGED <<pattern, artifact>>

NextLayers ==
    SliceLayerCall \/ LimitSliceCall \/ NonPrintingMoveCall \/ ZMoveCall \/ VertexCall

SpecLayers == InitLayers /\ [][NextLayers]_vars

----------------------------------------------------------------------------
(* Sessions of slice_pattern handed the layers to encode as a list or an   *)
(* array of indices, on encoders without travel limits.                    *)

ListedConfigs == {PlainConfig, SizedConfig, UnratedConfig}

\* The iterables handed to slice_pattern as layers.
ListedArgs ==
    [kind : {"list", "array"}, items : {<<0>>, <<1>>, <<4>>, <<1, 0>>, <<2, 2, 5>>}]

InitListed == \E cfg \in ListedConfigs, pat \in Patterns : Start(BasePrinter(cfg), pat)

ListedSliceCall ==
    \E layers \in ListedArgs, offset \in OffsetArgs :
        /\ Called("slice_pattern", <<layers, offset>>,
                  slice_pattern_listed([printer EXCEPT !.layer_calls = <<>>, !.hook_calls = <<>>],
                                       pattern, layers, offset))
        /\ UNCHANGED <<pattern, artifact>>

NextListed == ListedSliceCall \/ NonPrintingMoveCall

SpecListed == InitListed /\ [][NextListed]_vars

---------------------------------------------------------------------------
(* Sessions of transforms of a pattern the caller holds.  A call names its *)
(* target: <<>> is the pattern, <<i>> its layer i, <<i, j>> path j of that *)
(* layer.  last records, besides the call just made, the call before it    *)
(* (prev).  Ratios, offsets and centres are drawn so that every product is *)
(* a whole number of the model's units, as it is exact in the arrays.      *)

MaxTransforms == 2

\* The ratios handed to scale: <<numerator, denominator>>.
ScaleRatios == {<<2, 1>>, <<3, 1>>, <<1, 2>>, <<0, 1>>, <<0 - 1, 1>>}

\* The offsets handed to move.
MoveOffsets == {<<2, 4>>, <<0 - 3, 1>>, <<1, 2, 3>>, <<5>>}

\* The angles, in quarter turns, and the centres handed to rotate.
RotateArgs == (1..3) \X {None, Some(<<4, 2>>), Some(<<1, 2, 3>>)}

LayerTargets(pat) == { <<i>> : i \in 1..Len(pat.layers) }

PathTargets(pat) ==
    UNION { { <<i, j>> : j \in 1..Len(pat.layers[i].print_paths) } : i \in 1..Len(pat.layers) }

ContainerTargets(pat) == {<<>>} \cup LayerTargets(pat)

AllTargets(pat) == ContainerTargets(pat) \cup PathTargets(pat)

\* pattern.layers[i] after a call on it that returned r.
held_layer(pat, i, r) == [v |-> [pat EXCEPT !.layers[i] = r.v], err |-> r.err]

\* pattern.layers[i].print_paths[j] after a call on it that returned r.
held_path(pat, i, j, r) ==
    [v |-> [pat EXCEPT !.layers[i].print_paths[j] = r.v], err |-> r.err]

\* The paths of the target.
paths_of(pat, target) ==
    IF Len(target) = 2 THEN {pat.layers[target[1]].print_paths[target[2]]}
    ELSE UNION { { pat.layers[i].print_paths[j] : j \in 1..Len(pat.layers[i].print_paths) } :
                 i \in IF Len(target) = 1 THEN {target[1]} ELSE 1..Len(pat.layers) }

\* The product of every coordinate, bound and length of the path and the
\* ratio is whole.
is_whole(path, ratio) ==
    /\ \A i \in 1..Len(path.path_coordinates), k \in 1..2 :
           (path.path_coordinates[i][k] * ratio[1]) % ratio[2] = 0
    /\ \A k \in 1..4 : (path.bounds[k] * ratio[1]) % ratio[2] = 0
    /\ (path.length * ratio[1]) % ratio[2] = 0

\* The centre rotate turns the target about, doubled.
centre_of(pat, target, centre) ==
    IF ~IsNone(centre) THEN doubled(Val(centre))
    ELSE IF Len(target) = 0 THEN pat.centre
    ELSE IF Len(target) = 1 THEN pat.layers[target[1]].centre
    ELSE <<0, 0>>

\* scale(ratio) called on the target.
scale_at(pat, target, ratio) ==
    IF Len(target) = 0 THEN pattern_scale(pat, ratio)
    ELSE IF Len(target) = 1
    THEN held_layer(pat, target[1], layer_scale(pat.layers[target[1]], ratio))
    ELSE held_path(pat, target[1], target[2],
                   path_scale(pat.layers[target[1]].print_paths[target[2]], ratio))

\* move(offset) called on the target.
move_at(pat, target, offset) ==
    IF Len(target) = 0 THEN pattern_move(pat, offset)
    ELSE IF Len(target) = 1
    THEN held_layer(pat, target[1], layer_move(pat.layers[target[1]], offset))
    ELSE held_path(pat, target[1], target[2],
                   path_move(pat.layers[target[1]].print_paths[target[2]], offset))

\* rotate(angle, centre) called on the target.
rotate_at(pat, target, quarters, centre) ==
    IF Len(target) = 0 THEN pattern_rotate(pat, quarters, centre)
    ELSE IF Len(target) = 1
    THEN held_layer(pat, target[1], layer_rotate(pat.layers[target[1]], quarters, centre))
    ELSE held_path(pat, target[1], target[2],
                   path_rotate(pat.layers[target[1]].print_paths[target[2]], quarters,
                               centre_of(pat, target, centre)))

\* invert() called on the target, a layer or a path.
invert_at(pat, target) ==
    IF Len(target) = 1 THEN held_layer(pat, target[1], layer_invert(pat.layers[target[1]]))
    ELSE held_path(pat, target[1], target[2],
                   path_invert(pat.layers[target[1]].print_paths[target[2]]))

Transformed(op, args, r) ==
    /\ last.calls < MaxTransforms
    /\ pattern' = r.v
    /\ last' = [op |-> op, args |-> args, err |-> r.err, calls |-> last.calls + 1,
                pre |-> printer, pat |-> pattern,
                prev |-> [op |-> last.op, args |-> last.args, err |-> last.err,
                          pat |-> last.pat]]
    /\ UNCHANGED <<printer, artifact, peer>>

StartGeometry(p, pat) ==
    /\ printer = p
    /\ pattern = pat
    /\ artifact = None
    /\ peer = None
    /\ last = [op |-> "", args |-> <<>>, err |-> "", calls |-> 0, pre |-> p, pat |-> pat,
               prev |-> [op |-> "", args |-> <<>>, err |-> "", pat |-> pat]]

InitGeometry == \E pat \in Patterns : StartGeometry(BasePrinter(PlainConfig), pat)

ScaleCall(targets) ==
    \E target \in targets, ratio \in ScaleRatios :
        /\ \A path \in paths_of(pattern, target) : is_whole(path, ratio)
        /\ Transformed("scale", <<target, ratio>>, scale_at(pattern, target, ratio))

MoveCall(targets) ==
    \E target \in targets, offset \in MoveOffsets :
        Transformed("move", <<target, offset>>, move_at(pattern, target, offset))

RotateCall(targets) ==
    \E target \in targets, a \in RotateArgs :
        /\ (a[1] % 2 = 1 /\ Len(centre_of(pattern, target, a[2])) = 2) =>
               (centre_of(pattern, target, a[2])[1] + centre_of(pattern, target, a[2])[2]) % 2 = 0
        /\ Transformed("rotate", <<target, a[1], a[2]>>, rotate_at(pattern, target, a[1], a[2]))

InvertCall(targets) ==
    \E target \in targets \ {<<>>} :
        Transformed("invert", <<target>>, invert_at(pattern, target))

\* The transforms of the pattern and of its layers.
NextGeometry ==
    \/ ScaleCall(ContainerTargets(pattern))
    \/ MoveCall(ContainerTargets(pattern))
    \/ RotateCall(ContainerTargets(pattern))
    \/ InvertCall(ContainerTargets(pattern))

SpecGeometry == InitGeometry /\ [][NextGeometry]_vars

\* The transforms of the pattern, of its layers and of their paths.
NextPathGeometry ==
    \/ ScaleCall(AllTargets(pattern))
    \/ MoveCall(AllTargets(pattern))
    \/ RotateCall(AllTargets(pattern))
    \/ InvertCall(AllTargets(pattern))

SpecPathGeometry == InitGeometry /\ [][NextPathGeometry]_vars

---------------------------------------------------------------------------
(* Reading a pattern (lib/pattern_reading/raw_data_handling.py and         *)
(* Pattern.__init__).  The content of a file is the sequence of its lines. *)
(* A line is a record: pieces is its text split at every ':', each piece   *)
(* the sequence of the phrases it is made of, and numbers is what          *)
(* np.fromstring reads from it when it is a line of a pattern.  A key is   *)
(* a phrase, so a key is contained in a line when it is one of the phrases *)
(* of one of its pieces.                                                   *)

TextLine(pieces) == [pieces |-> pieces, numbers |-> <<>>]

DataLine(numbers) == [pieces |-> <<<<"data">>>>, numbers |-> numbers]

\* parameter_key in line
key_in_line(parameter_key, line) ==
    \E k \in 1..Len(line.pieces) : \E w \in 1..Len(line.pieces[k]) :
        line.pieces[k][w] = parameter_key

\* find_key_data(string, parameter_key): the text after the last ':' of the
\* one line that contains the key.
find_key_data(string, parameter_key) ==
    LET matched_lines == SelectSeq(string, LAMBDA line : key_in_line(parameter_key, line))
    IN  IF Len(matched_lines) = 0 THEN Err(<<>>, "ValueError")
        ELSE IF Len(matched_lines) > 1 THEN Err(<<>>, "ValueError")
        ELSE Ok(matched_lines[1].pieces[Len(matched_lines[1].pieces)])

\* _is_creation_date_same(first_content, second_content)
is_creation_date_same(first_content, second_content) ==
    IF IsNone(first_content) \/ IsNone(second_content) THEN Ok(FALSE)
    ELSE IF find_key_data(Val(first_content), "Creation date").err # ""
    THEN Err(FALSE, find_key_data(Val(first_content), "Creation date").err)
    ELSE IF find_key_data(Val(second_content), "Creation date").err # ""
    THEN Err(FALSE, find_key_data(Val(second_content), "Creation date").err)
    ELSE Ok(find_key_data(Val(first_content), "Creation date").v
            = find_key_data(Val(second_content), "Creation date").v)

StartOfPattern == TextLine(<<<<"# Start of pattern">>>>)

EndOfPattern == TextLine(<<<<"# End of pattern">>>>)

\* The loop of __read_into_layer_list from line i on.
RECURSIVE read_lines(_, _, _, _, _)
read_lines(raw_data, i, is_reading_on, print_paths, layer_list) ==
    IF i > Len(raw_data) THEN layer_list
    ELSE IF raw_data[i] = StartOfPattern
    THEN read_lines(raw_data, i + 1, TRUE, print_paths, layer_list)
    ELSE IF raw_data[i] = EndOfPattern
    THEN read_lines(raw_data, i + 1, FALSE, <<>>, Append(layer_list, print_paths))
    ELSE IF is_reading_on
    THEN read_lines(raw_data, i + 1, is_reading_on, Append(print_paths, raw_data[i]), layer_list)
    ELSE read_lines(raw_data, i + 1, is_reading_on, print_paths, layer_list)

\* __read_into_layer_list(raw_data)
read_into_layer_list(raw_data) == read_lines(raw_data, 1, FALSE, <<>>, <<>>)

\* The vertices np.fromstring and reshape make of the numbers of a line.
parsed_coordinates(numbers) ==
    [k \in 1..(Len(numbers) \div 2) |-> <<numbers[2 * k - 1], numbers[2 * k]>>]

\* What PrintPath(coordinates[i][j], overlap=overlaps[i][j]) raises: the
\* index of an overlap line that is not there, reshape on an odd count of
\* numbers, np.min on no vertex.
path_raised(coordinates, overlaps, i, j) ==
    IF ~IsNone(overlaps) /\ (i > Len(Val(overlaps)) \/ j > Len(Val(overlaps)[i]))
    THEN "IndexError"
    ELSE IF Len(coordinates[i][j].numbers) % 2 = 1 \/ Len(coordinates[i][j].numbers) < 2
    THEN "ValueError"
    ELSE ""

\* The first exception of the loops of read_layers from path j of layer i
\* on; Layer(paths) raises in np.min on a layer of no path.
RECURSIVE read_raised(_, _, _, _)
read_raised(coordinates, overlaps, i, j) ==
    IF i > Len(coordinates) THEN ""
    ELSE IF j > Len(coordinates[i])
    THEN (IF Len(coordinates[i]) = 0 THEN "ValueError"
          ELSE read_raised(coordinates, overlaps, i + 1, 1))
    ELSE IF path_raised(coordinates, overlaps, i, j) # ""
    THEN path_raised(coordinates, overlaps, i, j)
    ELSE read_raised(coordinates, overlaps, i, j + 1)

\* The loops of read_layers; overlaps is None or the overlap lines.
layers_read(coordinates, overlaps) ==
    [i \in 1..Len(coordinates) |->
        Layer([j \in 1..Len(coordinates[i]) |->
            PrintPath(parsed_coordinates(coordinates[i][j].numbers),
                      IF IsNone(overlaps) THEN None
                      ELSE Some(Val(overlaps)[i][j].numbers))])]

\* The loops of read_layers on the lines of the two files.
read_layers_from(coordinates, overlaps) ==
    IF read_raised(coordinates, overlaps, 1, 1) # ""
    THEN Err(<<>>, read_raised(coordinates, overlaps, 1, 1))
    ELSE Ok(layers_read(coordinates, overlaps))

\* read_layers(layer_data, overlap_data) with same the result of
\* _is_creation_date_same.
read_layers_given(layer_data, overlap_data, same) ==
    IF same.err # "" THEN Err(<<>>, same.err)
    ELSE IF ~same.v THEN read_layers_from(read_into_layer_list(layer_data), None)
    ELSE read_layers_from(read_into_layer_list(layer_data),
                          Some(read_into_layer_list(Val(overlap_data))))

\* read_layers(layer_data, overlap_data)
read_layers(layer_data, overlap_data) ==
    read_layers_given(layer_data, overlap_data,
                      is_creation_date_same(Some(layer_data), overlap_data))

\* int(text) for the texts of whole numbers the model reads.
int_of(text) ==
    IF text = <<"1">> THEN Ok(1) ELSE IF text = <<"2">> THEN Ok(2) ELSE Err(0, "ValueError")

\* Pattern.__init__ on what read_pattern returned: the content of the paths
\* file and the content of the overlap file or None.  __get_bounds raises in
\* np.min on a pattern of no layer.
pattern_read(raw_content, overlap_content) ==
    IF find_key_data(raw_content, "Print diameter").err # ""
    THEN Err(None, find_key_data(raw_content, "Print diameter").err)
    ELSE IF int_of(find_key_data(raw_content, "Print diameter").v).err # ""
    THEN Err(None, "ValueError")
    ELSE IF find_key_data(raw_content, "Source directory").err # ""
    THEN Err(None, find_key_data(raw_content, "Source directory").err)
    ELSE IF read_layers(raw_content, overlap_content).err # ""
    THEN Err(None, read_layers(raw_content, overlap_content).err)
    ELSE IF Len(read_layers(raw_content, overlap_content).v) = 0
    THEN Err(None, "ValueError")
    ELSE Ok(Some(Pattern(int_of(find_key_data(raw_content, "Print diameter").v).v,
                         find_key_data(raw_content, "Source directory").v,
                         read_layers(raw_content, overlap_content).v)))

---------------------------------------------------------------------------
(* The files a pattern is read from: the metadata lines, then the layers   *)
(* of PatternB.                                                            *)

DiameterLine == TextLine(<<<<"Print diameter">>, <<"2">>>>)

SourceLine == TextLine(<<<<"Source directory">>, <<"B">>>>)

\* Lines that hold a key inside the value of another key.
MentionLines ==
    [none |-> <<>>,
     diameter |-> <<TextLine(<<<<"Comment">>, <<"the", "Print diameter", "is in pixels">>>>)>>,
     source |-> <<TextLine(<<<<"Comment">>, <<"sliced from", "Source directory">>>>)>>]

\* Creation dates: noon differs from morning in the hour alone, late in the
\* seconds as well.
CreationDates ==
    [morning |-> TextLine(<<<<"Creation date">>, <<"2024-01-01 09">>, <<"30">>, <<"45">>>>),
     noon    |-> TextLine(<<<<"Creation date">>, <<"2024-01-01 12">>, <<"30">>, <<"45">>>>),
     late    |-> TextLine(<<<<"Creation date">>, <<"2024-01-01 12">>, <<"30">>, <<"59">>>>)]

Repeated(line, n) == [k \in 1..n |-> line]

RECURSIVE Flattened(_)
Flattened(ss) == IF ss = <<>> THEN <<>> ELSE ss[1] \o Flattened(Tail(ss))

\* The lines of the layers of a pattern: what selects the numbers of a path.
LayerLines(pat, numbers(_)) ==
    Flattened([i \in 1..Len(pat.layers) |->
        <<StartOfPattern>>
        \o [j \in 1..Len(pat.layers[i].print_paths) |->
               DataLine(numbers(pat.layers[i].print_paths[j]))]
        \o <<EndOfPattern>>])

CoordinateNumbers(path) == Flattened(path.path_coordinates)

OverlapNumbers(path) == path.overlap

\* The greatest number of lines of one key in a file.
MaxKeyLines == 2

PathsFiles ==
    { Repeated(DiameterLine, d) \o Repeated(SourceLine, n) \o MentionLines[m]
      \o <<CreationDates.morning>> \o LayerLines(PatternB, CoordinateNumbers) :
      d \in 0..MaxKeyLines, n \in 0..MaxKeyLines, m \in DOMAIN MentionLines }

OverlapFiles ==
    {None} \cup { Some(<<CreationDates[c]>> \o LayerLines(PatternB, OverlapNumbers)) :
                  c \in DOMAIN CreationDates }

\* Before Pattern(pattern_name): the two files are on disk, no pattern yet.
InitReading ==
    \E raw_content \in PathsFiles, overlap_content \in OverlapFiles :
        /\ printer = BasePrinter(PlainConfig)
        /\ pattern = None
        /\ artifact = None
        /\ peer = None
        /\ last = [op |-> "", args |-> <<raw_content, overlap_content>>, err |-> "",
                   calls |-> 0, pre |-> printer, pat |-> None]

\* Pattern(pattern_name)
PatternCall ==
    /\ last.op = ""
    /\ pattern' = pattern_read(last.args[1], last.args[2]).v
    /\ last' = [last EXCEPT !.op = "Pattern", !.calls = 1,
                            !.err = pattern_read(last.args[1], last.args[2]).err]
    /\ UNCHANGED <<printer, artifact, peer>>

NextReading == PatternCall

SpecReading == InitReading /\ [][NextReading]_vars

---------------------------------------------------------------------------
(* Properties.  Each is stated over the call just made: last.pre is the    *)
(* encoder before it and printer the encoder after it.                     *)

IsPrefix(s, t) == Len(s) <= Len(t) /\ SubSeq(t, 1, Len(s)) = s

\* What the call just made appended to the body stream.
Appended == Suffix(printer.body, Len(last.pre.body))

StreamsUnchanged ==
    /\ printer.header = last.pre.header
    /\ printer.body = last.pre.body
    /\ printer.footer = last.pre.footer

\* A line is known by its opcode, a comment by its text.
Key(line) == IF line[1] = "comment" THEN line[2] ELSE line[1]

Keys(lines) == [i \in 1..Len(lines) |-> Key(lines[i])]

Count(keys, k) == Cardinality({i \in 1..Len(keys) : keys[i] = k})

\* The index of the n-th line with key k.
Nth(keys, k, n) ==
    CHOOSE i \in 1..Len(keys) : keys[i] = k /\ Cardinality({j \in 1..i : keys[j] = k}) = n

\* The index of the first and of the last line with key k, 0 without one.
First(keys, k) == IF Count(keys, k) = 0 THEN 0 ELSE Nth(keys, k, 1)

Final(keys, k) == IF Count(keys, k) = 0 THEN 0 ELSE Nth(keys, k, Count(keys, k))

\* The target of a call to _non_printing_move, widened to three components.
Target(pre, position) ==
    IF Len(position) = 2 THEN <<position[1], position[2], pre.current_position[3]>>
    ELSE position

\* The lines a supplement adds to the artifact.
SupplementLines(o) == IF o = <<>> THEN <<>> ELSE << <<"supplement", o[1]>> >>

---------------------------------------------------------------------------

\* The x and y a travel line moves to.
IsPlanarTravel(line) == line[1] \in {"G0", "G0XY"}

\* Where the layers sliced by the call start: the target of the first planar
\* travel after each "Beginning a new layer." comment.
LayerStart(lines, from) ==
    <<SelectSeq(Suffix(lines, from), IsPlanarTravel)[1][2],
      SelectSeq(Suffix(lines, from), IsPlanarTravel)[1][3]>>

LayerStarts(lines) ==
    [n \in 1..Count(Keys(lines), "Beginning a new layer.") |->
        LayerStart(lines, Nth(Keys(lines), "Beginning a new layer.", n))]

\* The first vertex of layer i_layer of the caller's pattern, in millimetres
\* of the print.
ScaledStart(pat, i_layer, print_width, offset) ==
    <<(pat.layers[i_layer + 1].print_paths[1].path_coordinates[1][1] * print_width)
          \div pat.pixel_path_width + (IF offset = <<>> THEN 0 ELSE offset[1][1]),
      (pat.layers[i_layer + 1].print_paths[1].path_coordinates[1][2] * print_width)
          \div pat.pixel_path_width + (IF offset = <<>> THEN 0 ELSE offset[1][2])>>

\* C1: slice_pattern(pattern, N) with N >= 1 on a pattern of M layers calls
\* slice_layer once per index of [i mod M for i = 0..N-1], in that order, and
\* the body holds the layers in that order; a call that fails has made a
\* prefix of these calls.
C1_LayerOrder ==
    (last.op = "slice_pattern" /\ last.args[1] >= 1) =>
        /\ Len(printer.layer_calls) <= last.args[1]
        /\ \A n \in 1..Len(printer.layer_calls) :
               printer.layer_calls[n] = (n - 1) % Len(last.pat.layers)
        /\ Count(Keys(Appended), "Beginning a new layer.") = Len(printer.layer_calls)
        /\ last.err = "" =>
               /\ Len(printer.layer_calls) = last.args[1]
               /\ LayerStarts(Appended) =
                      [n \in 1..last.args[1] |->
                          ScaledStart(last.pat, (n - 1) % Len(last.pat.layers),
                                      last.pre.print_width, last.args[2])]

\* More layers are asked for than the pattern holds, and all are sliced.
C1_Witness ==
    /\ last.op = "slice_pattern"
    /\ last.err = ""
    /\ last.args[1] = 4
    /\ printer.layer_calls = <<0, 1, 2, 0>>

\* The out-of-range conditions of a target, from the limits of the encoder.
OutOfBounds(pre, t) ==
    \/ t[1] < 0
    \/ t[2] < 0
    \/ t[3] < 0
    \/ (pre.x_limit # <<>> /\ t[1] > pre.x_limit[1])
    \/ (pre.y_limit # <<>> /\ t[2] > pre.y_limit[1])
    \/ (pre.z_limit # <<>> /\ t[3] > pre.z_limit[1])

\* C2: a non-printing move whose target has a coordinate below zero, or above
\* a configured limit, fails, appends nothing to any stream and leaves the
\* position, the non-printing distance and the print time as they were.
C2_OutOfBoundsMove ==
    (last.op = "non_printing_move" /\ OutOfBounds(last.pre, Target(last.pre, last.args[1]))) =>
        /\ last.err # ""
        /\ StreamsUnchanged
        /\ printer.current_position = last.pre.current_position
        /\ printer.non_print_distance = last.pre.non_print_distance
        /\ printer.print_time = last.pre.print_time

\* A negative target is refused by an encoder without any limit.
C2_Witness ==
    /\ last.op = "non_printing_move"
    /\ last.err = "RuntimeError"
    /\ last.pre.x_limit = <<>>
    /\ last.args[1][1] < 0

\* C3: slice_pattern never changes the Pattern handed to it, whether the
\* call succeeds or fails.
C3_PatternUntouched == pattern = last.pat

\* A call that scaled and moved its copy.
C3_Witness ==
    /\ last.op = "slice_pattern"
    /\ last.err = ""
    /\ last.args[2] # <<>>
    /\ pattern.pixel_path_width # last.pre.print_width

\* The motion commands among lines: all but the retraction pulses.
IsMotion(line) == line[1] # "G1E"

\* Whether the move from the position of pre to t is one with lift-off: the
\* distance is compared through its square.
Lifted(pre, t) ==
    /\ pre.lift_off_distance # <<>>
    /\ t[3] = pre.current_position[3]
    /\ SumSq(VSub(t, pre.current_position)) >= pre.lift_off_distance[1] * pre.lift_off_distance[1]

\* The three commands and the distance of a move with lift-off.
LiftedMove(pre, t, motion, distance) ==
    /\ motion = << <<"G0Z", pre.current_position[3] + pre.lift_off_height, pre.non_print_speed>>,
                   <<"G0XY", t[1], t[2], pre.non_print_speed>>,
                   <<"G0Z", t[3], pre.non_print_speed>> >>
    /\ distance = pre.lift_off_height * LenScale
                  + Norm(<<t[1] - pre.current_position[1], t[2] - pre.current_position[2]>>)
                  + pre.lift_off_height * LenScale

\* The single command and the distance of a move without lift-off.
DirectMove(pre, t, motion, distance) ==
    /\ motion = << <<"G0", t[1], t[2], t[3], pre.non_print_speed>> >>
    /\ distance = Norm(VSub(t, pre.current_position))

\* C4: a non-printing move at least as long as the lift-off threshold, with
\* equal start and target Z, is three commands (raise, planar translate,
\* lower) and adds lift height + planar distance + lift height to the
\* non-printing distance; every other move that succeeds is one 3-D command
\* and adds its Euclidean length.
C4_LiftOff ==
    (last.op = "non_printing_move" /\ last.err = "") =>
        IF Lifted(last.pre, Target(last.pre, last.args[1]))
        THEN LiftedMove(last.pre, Target(last.pre, last.args[1]),
                        SelectSeq(Appended, IsMotion),
                        printer.non_print_distance - last.pre.non_print_distance)
        ELSE DirectMove(last.pre, Target(last.pre, last.args[1]),
                        SelectSeq(Appended, IsMotion),
                        printer.non_print_distance - last.pre.non_print_distance)

\* A move of exactly the threshold length that is lifted.
C4_Witness ==
    /\ last.op = "non_printing_move"
    /\ last.err = ""
    /\ Len(SelectSeq(Appended, IsMotion)) = 3
    /\ SumSq(VSub(Target(last.pre, last.args[1]), last.pre.current_position))
           = last.pre.lift_off_distance[1] * last.pre.lift_off_distance[1]

\* C5: no call reorders or drops what the streams hold, and export writes
\* the header stream, the header supplement, the body stream, the body
\* supplement, the footer stream and the footer supplement, in that order.
C5_ExportOrder ==
    /\ IsPrefix(last.pre.header, printer.header)
    /\ IsPrefix(last.pre.body, printer.body)
    /\ IsPrefix(last.pre.footer, printer.footer)
    /\ (last.op = "export" /\ last.err = "") =>
           artifact = << printer.header \o SupplementLines(last.args[1])
                         \o printer.body \o SupplementLines(last.args[2])
                         \o printer.footer \o SupplementLines(last.args[3]) >>

\* An export with all three supplements after a call that wrote to the body.
C5_Witness ==
    /\ last.op = "export"
    /\ last.err = ""
    /\ last.args[1] # <<>>
    /\ last.args[3] # <<>>
    /\ Len(last.pre.body) > 0

\* C6: slice_pattern with a layer count of zero or less fails at once:
\* nothing is appended to any stream, the pixel size is not computed, and
\* the position and the statistics stay as they were.
C6_NoLayers ==
    (last.op = "slice_pattern" /\ last.args[1] <= 0) =>
        /\ last.err = "RuntimeError"
        /\ StreamsUnchanged
        /\ printer.physical_pixel_size = last.pre.physical_pixel_size
        /\ printer.current_position = last.pre.current_position
        /\ printer.print_time = last.pre.print_time
        /\ printer.print_distance = last.pre.print_distance
        /\ printer.non_print_distance = last.pre.non_print_distance
        /\ printer.extrusion_distance = last.pre.extrusion_distance
        /\ printer.total_extrusion_distance = last.pre.total_extrusion_distance

\* Zero layers asked of an encoder that has no pixel size yet.
C6_Witness ==
    /\ last.op = "slice_pattern"
    /\ last.args[1] = 0
    /\ last.err = "RuntimeError"
    /\ printer.physical_pixel_size = <<>>

\* The setup of the Hyrel adapter, each stage by the first line that only it
\* writes: units, offsets, homing, tool offset, temperatures, prime programs,
\* flow and metering mode, tool, cleaning, curing output.
SetupOrder ==
    <<"G21", "G53", "G28XY", "M6", "M109", "M190", "M722", "M721", "M229", "M82", "M221", "T",
      "Starting initial priming.", "Priming complete.", "Cleaning with priming complete.",
      "M106", "Initial Hyrel configuration complete.">>

\* The lines the setup alone writes.
SetupOnly ==
    {"G21", "G53", "M6", "M229", "M82", "M221", "T", "Starting initial priming.",
     "Cleaning with priming complete.", "M106", "Initial Hyrel configuration complete."}

InSetupOrder(keys) ==
    /\ First(keys, SetupOrder[1]) > 0
    /\ \A k \in 1..(Len(SetupOrder) - 1) :
           First(keys, SetupOrder[k]) < First(keys, SetupOrder[k + 1])
    /\ \A k \in SetupOnly : Count(keys, k) = 1

\* Every line of every slice_pattern call comes after the setup.
SlicedAfterSetup(keys) ==
    \A i \in 1..Len(keys) :
        keys[i] = "Slicing pattern" => i > First(keys, "Initial Hyrel configuration complete.")

InTeardownOrder(a, keys) ==
    /\ Count(keys, "Starting unpriming.") = 1
    /\ Count(keys, "Unpriming complete.") = 1
    /\ Count(keys, "M18") = 1
    /\ Count(keys, "M30") = 1
    /\ First(keys, "Starting unpriming.") < First(keys, "Unpriming complete.")
    /\ \E i \in First(keys, "Starting unpriming.")..First(keys, "Unpriming complete.") :
           keys[i] = "Unpriming now." /\ keys[i + 1] = "M721"
    /\ First(keys, "Unpriming complete.") < Final(keys, "M190")
    /\ a[Final(keys, "M190")][2] = 0
    /\ Final(keys, "M190") < Final(keys, "M109")
    /\ a[Final(keys, "M109")][3] = 0
    /\ Final(keys, "M109") < Final(keys, "G28XY")
    /\ Final(keys, "G28XY") < First(keys, "M18")
    /\ First(keys, "M18") < First(keys, "M30")

\* The teardown starts right after the body as it was before export, bodyStart
\* lines into the artifact, and the end of program comes after the whole body.
TeardownAfter(a, keys, bodyStart) ==
    /\ SubSeq(a, bodyStart + 1, bodyStart + Len(last.pre.body)) = last.pre.body
    /\ First(keys, "Starting unpriming.") = bodyStart + Len(last.pre.body) + 1
    /\ First(keys, "M30") > bodyStart + Len(printer.body)
    /\ \A i \in 1..Len(keys) :
           keys[i] = "Slicing pattern" => i < First(keys, "Starting unpriming.")

\* C8: the artifact of a Hyrel export holds the teardown once, in the order
\* un-prime, bed and nozzle temperature to zero, home, motors off (M18), end
\* of program (M30); all of it after every line of the slice_pattern calls
\* before it, and the end of program after every other line of the teardown.
C8_TeardownOrder ==
    /\ artifact # <<>> => InTeardownOrder(artifact[1], Keys(artifact[1]))
    /\ (last.op = "export" /\ last.err = "") =>
           TeardownAfter(artifact[1], Keys(artifact[1]),
                         Len(printer.header) + Len(SupplementLines(last.args[1])))
    /\ (last.op = "export" /\ last.err # "") => StreamsUnchanged

\* An export after a slice_pattern call.
C8_Witness ==
    /\ last.op = "export"
    /\ last.err = ""
    /\ Count(Keys(last.pre.body), "Slicing pattern") = 1

\* The call just made was refused and wrote nothing.
Rejected == last.err # "" /\ StreamsUnchanged

\* C9: every stage of the Hyrel adapter checks its numeric parameters (tool
\* number in [0, 4), tool offset X and Y in [0, 200] and Z in [0, 120], height
\* offset in [0, 120], UV duty cycle in [0, 100], pulse count in [0, 65535])
\* before it writes anything: with a value out of range the stage fails and
\* has appended nothing to any stream.
C9_StagesValidate ==
    /\ (last.op = "select_tool" /\ ~(0 <= last.args[1] /\ last.args[1] < 4)) => Rejected
    /\ (last.op = "define_height_offset" /\ ~(0 <= last.args[1] /\ last.args[1] <= 120))
           => Rejected
    /\ (last.op = "define_tool_offset"
        /\ ~(/\ 0 <= last.args[1][1] /\ last.args[1][1] <= 200
             /\ 0 <= last.args[1][2] /\ last.args[1][2] <= 200
             /\ 0 <= last.args[1][3] /\ last.args[1][3] <= 120)) => Rejected
    /\ (last.op \in {"configure_prime", "configure_unprime"}
        /\ ~(0 <= last.args[1] /\ last.args[1] <= 65535)) => Rejected
    /\ (last.op \in {"configure_uv_array", "configure_uv_pen"}
        /\ ~(0 <= last.args[1] /\ last.args[1] <= 100)) => Rejected

\* C10: export folds the session extrusion into the lifetime total and then
\* zeroes it, before it writes G92 E0; so the lifetime total and the session
\* extrusion always add up to the extrusion of all printing moves, and the
\* session extrusion is zero after export.
C10_ExtrusionFold ==
    /\ printer.total_extrusion_distance + printer.extrusion_distance = printer.extruded
    /\ last.op = "export" =>
           /\ printer.extrusion_distance = 0
           /\ printer.total_extrusion_distance
                  = last.pre.total_extrusion_distance + last.pre.extrusion_distance
    /\ (last.op = "export" /\ last.err = "") => Appended = << <<"G92E0">> >>

\* An export that fails at G92 E0, the streams being closed, after it has
\* folded the extrusion of a printing move made since the first export.
C10_Witness ==
    /\ last.op = "export"
    /\ last.err # ""
    /\ last.pre.extrusion_distance > 0
    /\ printer.extrusion_distance = 0
    /\ printer.total_extrusion_distance = last.pre.extrusion_distance

\* C11: export closes the header, body and footer streams and removes their
\* temporary files on every exit path, also when it fails part-way because
\* the artifact cannot be opened or written.
C11_ExportReclaims ==
    last.op = "export" => (printer.closed /\ ~printer.stored)

\* The printing move just made, and the amount it added to the session.
Printed == last.op = "printing_move_variable_width" /\ last.err = ""

AmountAdded == printer.extrusion_distance - last.pre.extrusion_distance

\* The line l names the target of the move and carries the field e.
Meters(l, e) ==
    /\ l[1] = "G1"
    /\ <<l[2], l[3], l[4]>> = Target(last.pre, last.args[1])
    /\ l[5] = e

\* C12: a printing move writes exactly one motion command, with the session
\* extrusion after this move under absolute metering, this move's own amount
\* under relative metering, and the fixed E1 under the native on/off mode.
C12_MeteringField ==
    Printed =>
        /\ Len(Appended) = 1
        /\ printer.extrusion_control_type \in EXT_WITH_ABS_E
               => Meters(Appended[1], last.pre.extrusion_distance + AmountAdded)
        /\ printer.extrusion_control_type \in EXT_WITH_REL_E
               => Meters(Appended[1], AmountAdded)
        /\ printer.extrusion_control_type = HYREL_NATIVE
               => /\ Appended[1][1] = "G1E1"
                  /\ Len(Appended[1]) = 5
                  /\ <<Appended[1][2], Appended[1][3], Appended[1][4]>>
                         = Target(last.pre, last.args[1])

\* The second printing move of a session under absolute metering.
C12_Witness ==
    /\ Printed
    /\ printer.extrusion_control_type \in EXT_WITH_ABS_E
    /\ last.pre.extrusion_distance > 0
    /\ AmountAdded > 0

\* crossSection(w, h) = (w + h*(1 - pi/4) - h)*h + pi*(h/2)^2, the width w
\* in 1/WidthScale mm and the result in 1/WidthScale mm^2.
CrossSectionOf(w, h) ==
    ((w * 4 * PiDen + h * WidthScale * (4 * PiDen - PiNum) - h * WidthScale * 4 * PiDen) * h
     + PiNum * h * h * WidthScale) \div (4 * PiDen)

\* filamentCrossSection = pi*d^2/4, d in 1/100 mm and the result in 1/100 mm^2.
FilamentCrossSectionOf(d) == (PiNum * d * d) \div (4 * PiDen * 100)

\* The length of the move just made, in 1/LenScale mm.
LengthMoved == Norm(VSub(Target(last.pre, last.args[1]), last.pre.current_position))

C14_PolicyRejected ==
    (printer.is_width_variable /\ ~printer.is_speed_variable) =>
        (printer.body = <<>> /\ printer.print_distance = 0)

\* The lines with key k among the lines a..b.
CountBetween(keys, k, a, b) == Cardinality({i \in a..b : keys[i] = k})

\* ceil(P / 65535)
LinesFor(P) == (P + 65534) \div 65535

\* The priming of the setup in the body with keys keys: its printing moves,
\* one per priming line, and the pulse count set for each of them.
PrimedInLines(body, keys, P) ==
    /\ CountBetween(keys, "G1E1", First(keys, "Starting initial priming."),
                    First(keys, "Priming complete.")) = LinesFor(P)
    /\ \E i \in First(keys, "Starting initial priming.")..First(keys, "Priming complete.") :
           /\ keys[i] = "M722"
           /\ Len(body[i]) = 5
           /\ body[i][4] = P \div LinesFor(P)

\* No prime or unprime program is set with a pulse count out of range.
PulsesInRange(lines) ==
    \A i \in 1..Len(lines) :
        (lines[i][1] \in {"M721", "M722"} /\ Len(lines[i]) = 5)
            => (0 <= lines[i][4] /\ lines[i][4] <= 65535)

\* C15: priming with a pulse budget P >= 1 uses exactly ceil(P/65535) priming
\* lines (three for 150,000 pulses), and the pulse count set for a line never
\* exceeds 65535, so that no priming or un-priming is refused by the range
\* check of the pulse count.
C15_PrimingLines ==
    /\ PrimedInLines(printer.body, Keys(printer.body), printer.priming_pulses)
    /\ PulsesInRange(printer.body)
    /\ First(Keys(printer.body), "Initial Hyrel configuration complete.") > 0
    /\ (last.op = "export" /\ last.err = "") =>
           /\ Count(Keys(printer.body), "Unpriming now.") = LinesFor(printer.priming_pulses)
           /\ Count(Keys(printer.body), "Unpriming complete.") = 1

\* An adapter built with 150,000 pulses, after its export.
C15_Witness ==
    /\ printer.priming_pulses = 150000
    /\ CountBetween(Keys(printer.body), "G1E1",
                    First(Keys(printer.body), "Starting initial priming."),
                    First(Keys(printer.body), "Priming complete.")) = 3
    /\ last.op = "export"
    /\ last.err = ""


---------------------------------------------------------------------------
(* Properties of the geometry, stated over the pattern the caller holds    *)
(* after the transforms of a session.                                      *)

Vertices(layer) ==
    UNION { { layer.print_paths[j].path_coordinates[k] :
              k \in 1..Len(layer.print_paths[j].path_coordinates) } :
            j \in 1..Len(layer.print_paths) }

\* b is the smallest box that holds the boxes of the children.
UnionOfBounds(b, children) ==
    /\ \A j \in 1..Len(children) :
           /\ b[1] <= children[j].bounds[1] /\ b[2] <= children[j].bounds[2]
           /\ b[3] >= children[j].bounds[3] /\ b[4] >= children[j].bounds[4]
    /\ \A k \in 1..4 : \E j \in 1..Len(children) : b[k] = children[j].bounds[k]

Contains(b, v) == b[1] <= v[1] /\ v[1] <= b[3] /\ b[2] <= v[2] /\ v[2] <= b[4]

\* The distance from the end of path j to the start of path j + 1.
Gap(paths, j) == Norm(VSub(path_end(paths[j]), path_start(paths[j + 1])))

RECURSIVE SumTo(_, _)
SumTo(f, n) == IF n = 0 THEN 0 ELSE f[n] + SumTo(f, n - 1)

LayerConsistent(layer) ==
    /\ UnionOfBounds(layer.bounds, layer.print_paths)
    /\ \A v \in Vertices(layer) : Contains(layer.bounds, v)
    /\ layer.centre = <<layer.bounds[1] + layer.bounds[3], layer.bounds[2] + layer.bounds[4]>>
    /\ layer.printing_distance =
           SumTo([j \in 1..Len(layer.print_paths) |-> layer.print_paths[j].length],
                 Len(layer.print_paths))
    /\ layer.non_printing_distance =
           SumTo([j \in 1..(Len(layer.print_paths) - 1) |-> Gap(layer.print_paths, j)],
                 Len(layer.print_paths) - 1)

PatternConsistent(pat) ==
    /\ UnionOfBounds(pat.bounds, pat.layers)
    /\ pat.centre = <<pat.bounds[1] + pat.bounds[3], pat.bounds[2] + pat.bounds[4]>>

BadTransform ==
    \/ last.op = "scale" /\ last.args[2][1] <= 0
    \/ last.op = "move" /\ Len(last.args[2]) # 2
    \/ last.op = "rotate" /\ ~IsNone(last.args[3]) /\ Len(Val(last.args[3])) # 2

\* C17: scale with a ratio <= 0, move with an offset that is not a 2-vector
\* and rotate with a centre that is not a 2-vector fail, on a path, a layer
\* and a pattern alike, and a transform that failed has left every
\* coordinate, bound and cached length of the whole pattern as it was.
C17_FailedTransform ==
    /\ BadTransform => last.err = "ValueError"
    /\ last.err # "" => pattern = last.pat

\* A failed call on a pattern of two layers of two paths that an earlier
\* call had changed, on each of the three levels.
C17_Witness ==
    /\ last.calls = 2 /\ last.prev.err = "" /\ last.pat # last.prev.pat
    /\ last.err = "ValueError" /\ BadTransform
    /\ Len(pattern.layers[1].print_paths) = 2
    /\ last.op = "rotate" /\ Len(last.args[1]) = 0

\* The call just made and the one before it were scale on the same target
\* and both returned.
ScaledTwice ==
    /\ last.op = "scale" /\ last.prev.op = "scale"
    /\ last.err = "" /\ last.prev.err = ""
    /\ last.args[1] = last.prev.args[1]

\* The product of two ratios.
RatioProduct(r, q) == <<r[1] * q[1], r[2] * q[2]>>

\* C18: scale(r1) and then scale(r2) on a path, a layer or a pattern, both
\* ratios positive, leaves the same coordinates, bounds and cached lengths
\* as the single scale(r1 * r2) on the entity as it was before the two.
C18_ScaleComposes ==
    ScaledTwice =>
        pattern = scale_at(last.prev.pat, last.args[1],
                           RatioProduct(last.prev.args[2], last.args[2])).v

\* A pattern halved and then tripled.
C18_Witness ==
    /\ ScaledTwice
    /\ last.args[1] = <<>>
    /\ last.prev.args[2] = <<1, 2>> /\ last.args[2] = <<3, 1>>
    /\ pattern # last.pat /\ last.pat # last.prev.pat

---------------------------------------------------------------------------
(* Properties of reading a pattern, stated over the files handed to        *)
(* Pattern(pattern_name) (last.args) and what it returned or raised.       *)

\* The 'key: value' lines of the content whose key is the given one.
KeyLines(content, key) ==
    SelectSeq(content, LAMBDA line : Len(line.pieces) >= 2 /\ line.pieces[1] = <<key>>)

\* Each of the two metadata keys is the key of exactly one line.
KeysOnce(content) ==
    /\ Len(KeyLines(content, "Print diameter")) = 1
    /\ Len(KeyLines(content, "Source directory")) = 1

\* C19: the construction of a Pattern fails with a parse error unless each
\* of the keys 'Print diameter' and 'Source directory' is the key of exactly
\* one 'key: value' line of the paths file, none and two or more being errors
\* alike; a key that only stands inside the value of another line is no
\* occurrence, so with each key once the construction without an overlap
\* file succeeds whatever the values mention.
C19_MetadataKeys ==
    last.op = "Pattern" =>
        /\ ~KeysOnce(last.args[1]) => last.err = "ValueError"
        /\ (KeysOnce(last.args[1]) /\ IsNone(last.args[2])) => last.err = ""

\* All of the text after the key of the one line of that key.
WholeValue(content, key) == Tail(KeyLines(content, key)[1].pieces)

\* The two files are present and hold the same creation date.
SameCreationDate ==
    /\ ~IsNone(last.args[2])
    /\ WholeValue(last.args[1], "Creation date") = WholeValue(Val(last.args[2]), "Creation date")

\* Every path of the pattern carries the overlap data of the overlap file.
OverlapAttached(pat) ==
    \A i \in 1..Len(pat.layers) : \A j \in 1..Len(pat.layers[i].print_paths) :
        pat.layers[i].print_paths[j].overlap = PatternB.layers[i].print_paths[j].overlap

\* No path of the pattern carries overlap data.
OverlapAbsent(pat) ==
    \A i \in 1..Len(pat.layers) : \A j \in 1..Len(pat.layers[i].print_paths) :
        \A k \in 1..Len(pat.layers[i].print_paths[j].overlap) :
            pat.layers[i].print_paths[j].overlap[k] = 0

\* No line holds one of the two metadata keys anywhere but as its key.
NoMention(content) ==
    \A i \in 1..Len(content) : \A key \in {"Print diameter", "Source directory"} :
        key_in_line(key, content[i]) => content[i].pieces[1] = <<key>>

\* C20: for a paths file that holds each metadata key once and nowhere else, the overlap data are
\* attached to the paths if and only if the overlap file is present and the
\* two creation dates, compared as whole values, are equal; without the
\* overlap file or with different dates the pattern is still loaded and no
\* path carries overlap data.
C20_OverlapAttached ==
    (last.op = "Pattern" /\ KeysOnce(last.args[1]) /\ NoMention(last.args[1])) =>
        /\ last.err = ""
        /\ SameCreationDate => OverlapAttached(Val(pattern))
        /\ ~SameCreationDate => OverlapAbsent(Val(pattern))

---------------------------------------------------------------------------
(* Properties of the order and the positions of what slice_pattern and     *)
(* slice_layer emit.                                                       *)

IsPrint(line) == line[1] \in {"G1", "G1E1"}

\* The position a machine is at after a motion line, from the position pos
\* before it, under absolute positioning.
After(line, pos) ==
    IF line[1] \in {"G0", "G1", "G1E1"} THEN <<line[2], line[3], line[4]>>
    ELSE IF line[1] = "G0XY" THEN <<line[2], line[3], pos[3]>>
    ELSE IF line[1] = "G0Z" THEN <<pos[1], pos[2], line[2]>>
    ELSE pos

\* The machine executing lines i.. from the position pos: where it ends, and
\* the lengths of its travel and of its printing moves, in 1/LenScale mm.
RECURSIVE Executed(_, _, _, _, _)
Executed(lines, i, pos, travel, printing) ==
    IF i > Len(lines) THEN [pos |-> pos, travel |-> travel, printing |-> printing]
    ELSE Executed(lines, i + 1, After(lines[i], pos),
                  travel + (IF lines[i][1] \in {"G0", "G0XY", "G0Z"}
                            THEN Norm(VSub(After(lines[i], pos), pos)) ELSE 0),
                  printing + (IF IsPrint(lines[i])
                              THEN Norm(VSub(After(lines[i], pos), pos)) ELSE 0))

\* The index in lines of the comment that begins the n-th layer, and of the
\* last line of that layer's step.
LayerFrom(lines, n) == Nth(Keys(lines), "Beginning a new layer.", n)

LayerUpTo(lines, n) ==
    IF n < Count(Keys(lines), "Beginning a new layer.") THEN LayerFrom(lines, n + 1) - 1
    ELSE Len(lines)

\* The motion lines of the n-th layer's step.
LayerMotion(lines, n) ==
    SelectSeq(SubSeq(lines, LayerFrom(lines, n), LayerUpTo(lines, n)), IsMotion)

\* The number of lines a Z move writes.
ZMoveLines(pre) ==
    IF pre.retraction_length # <<>> /\ pre.retraction_rate # <<>> THEN 3 ELSE 1

\* The step of the n-th layer (index k = n - 1): its printing moves are at
\* Z = first layer height + k * layer thickness, the hook is called with k
\* after the last command of the layer, and the step ends with one Z move of
\* one layer thickness up from where the layer ended.
LayerStep(pre, lines, n) ==
    /\ \A i \in LayerFrom(lines, n)..LayerUpTo(lines, n) :
           IsPrint(lines[i]) =>
               lines[i][4] = pre.first_layer_thickness + (n - 1) * pre.layer_thickness
    /\ printer.hook_calls[n]
           = <<n - 1, Len(pre.body) + LayerUpTo(lines, n) - ZMoveLines(pre)>>
    /\ LayerMotion(lines, n)[Len(LayerMotion(lines, n))]
           = <<"G0", SelectSeq(LayerMotion(lines, n), IsPrint)[
                         Len(SelectSeq(LayerMotion(lines, n), IsPrint))][2],
                     SelectSeq(LayerMotion(lines, n), IsPrint)[
                         Len(SelectSeq(LayerMotion(lines, n), IsPrint))][3],
                     pre.first_layer_thickness + n * pre.layer_thickness,
                     pre.non_print_speed>>

\* What is emitted before the first layer: the travel to the start of the
\* first layer, direct or lifted, then the Z move to the first layer height.
BeforeLayers(pre, motion, start) ==
    /\ Len(motion) \in {2, 4}
    /\ motion[Len(motion)]
           = <<"G0", start[1], start[2], pre.first_layer_thickness, pre.non_print_speed>>
    /\ IF Len(motion) = 2
       THEN motion[1] = <<"G0", start[1], start[2], pre.current_position[3], pre.non_print_speed>>
       ELSE /\ motion[1][1] = "G0Z"
            /\ motion[2] = <<"G0XY", start[1], start[2], pre.non_print_speed>>
            /\ motion[3] = <<"G0Z", pre.current_position[3], pre.non_print_speed>>

\* C21: a slice_pattern call that returns has emitted, in this order, a
\* travel move to the start of the first layer, a Z move to the first layer
\* height, and then for every index k = 0..N-1 in order the commands of that
\* layer, printed at Z = first layer height + k * layer thickness, the hook
\* call with k, and a Z advance of one layer thickness; every move starts
\* where the one before it ended, so the tracked position and distances are
\* those of a machine that executes the lines in order.
C21_SliceOrder ==
    (last.op = "slice_pattern" /\ last.err = "") =>
        /\ Count(Keys(Appended), "Beginning a new layer.") = last.args[1]
        /\ Len(printer.hook_calls) = last.args[1]
        /\ Key(Appended[1]) = "Slicing pattern"
        /\ BeforeLayers(last.pre,
                        SelectSeq(SubSeq(Appended, 2, LayerFrom(Appended, 1) - 1), IsMotion),
                        ScaledStart(last.pat, 0, last.pre.print_width, last.args[2]))
        /\ \A n \in 1..last.args[1] : LayerStep(last.pre, Appended, n)
        /\ Executed(Appended, 1, last.pre.current_position, 0, 0)
               = [pos |-> printer.current_position,
                  travel |-> printer.non_print_distance - last.pre.non_print_distance,
                  printing |-> printer.print_distance - last.pre.print_distance]

\* Three layers of two paths each, sliced by an encoder with retraction after
\* an earlier call moved it.
C21_Witness ==
    /\ last.op = "slice_pattern" /\ last.err = ""
    /\ last.args[1] = 3
    /\ last.calls = 2
    /\ last.pre.retraction_length # <<>>
    /\ Len(last.pat.layers[1].print_paths) = 2
    /\ last.pre.current_position # <<0, 0, 0>>

\* The coordinates a line commands, as a target with the coordinates it
\* leaves alone taken from a position inside the limits.
Commanded(line) ==
    IF line[1] \in {"G0", "G1", "G1E1"} THEN <<line[2], line[3], line[4]>>
    ELSE IF line[1] = "G0XY" THEN <<line[2], line[3], 0>>
    ELSE IF line[1] = "G0Z" THEN <<0, 0, line[2]>>
    ELSE <<0, 0, 0>>

\* C22: on an encoder with axis limits, every position a motion line of the
\* body commands, the targets of printing moves and the raised position of a
\* lift-off included, has 0 <= coordinate <= limit on each axis, and the
\* tracked position is inside the travel volume.
C22_WithinLimits ==
    (printer.x_limit # <<>> /\ printer.y_limit # <<>> /\ printer.z_limit # <<>>) =>
        /\ \A i \in 1..Len(printer.body) : ~OutOfBounds(printer, Commanded(printer.body[i]))
        /\ ~OutOfBounds(printer, printer.current_position)

\* C23: a slice_pattern call that fails leaves no command of its own in the
\* body stream, and the position and the statistics as they were before the
\* call.
C23_FailedSliceDiscarded ==
    (last.op = "slice_pattern" /\ last.err # "") =>
        /\ printer.body = last.pre.body
        /\ printer.current_position = last.pre.current_position
        /\ printer.print_time = last.pre.print_time
        /\ printer.print_distance = last.pre.print_distance
        /\ printer.non_print_distance = last.pre.non_print_distance
        /\ printer.extrusion_distance = last.pre.extrusion_distance
        /\ printer.total_extrusion_distance = last.pre.total_extrusion_distance

\* A machine executing one line of the body: m.pos is where it is and
\* m.relative whether G91 is in force.  Under relative positioning the
\* coordinates of a motion line are displacements; G28 X0 Y0 homes X and Y.
Stepped(line, m) ==
    IF line[1] = "G91" THEN [m EXCEPT !.relative = TRUE]
    ELSE IF line[1] = "G90" THEN [m EXCEPT !.relative = FALSE]
    ELSE IF line[1] = "G28XY" THEN [m EXCEPT !.pos = <<0, 0, @[3]>>]
    ELSE IF line[1] \in {"G0", "G1", "G1E1", "G0XY", "G0Z"}
    THEN [m EXCEPT !.pos = IF m.relative
                            THEN VAdd(@, After(line, <<0, 0, 0>>))
                            ELSE After(line, @)]
    ELSE m

\* The machine after lines i..j of the body, the halves executed in turn.
RECURSIVE Machine(_, _, _, _)
Machine(lines, i, j, m) ==
    IF i > j THEN m
    ELSE IF i = j THEN Stepped(lines[i], m)
    ELSE TheOnly({Machine(lines, (i + j) \div 2 + 1, j, half) : half \in {Machine(lines, i, (i + j) \div 2, m)}})

\* C24: after every call that returned on an encoder that was still open
\* (the export that ends the session included), the tracked position is the
\* position of a machine that started at the origin under absolute
\* positioning and executed the body in order, honouring G90 and G91,
\* homing and un-priming included.
C24_TrackedPosition ==
    (last.err = "" /\ ~last.pre.closed) =>
        printer.current_position = Machine(printer.body, 1, Len(printer.body), [pos |-> <<0, 0, 0>>, relative |-> FALSE]).pos

\* The artifact the instance of the last call has exported.
ExportedThrough(via) == IF via = "first" THEN artifact ELSE peer.artifact

\* C25: of two encoders alive at the same time, an export called on an open
\* instance returns and writes exactly what was emitted through that
\* instance, and an instance that was not exported keeps the temporary
\* files of its streams.
C25_IndependentStreams ==
    /\ (last.op = "export" /\ ~last.pre.closed) =>
            /\ last.err = ""
            /\ ExportedThrough(last.via) = export(last.pre, None, None, None).artifact
    /\ ~printer.closed => printer.stored
    /\ ~peer.printer.closed => peer.printer.stored

IsTravel(line) == line[1] \in {"G0", "G0XY", "G0Z"}

\* The index in lines of the comment that begins the k-th path, and the
\* lines from it to the next such comment or to the end.
PathFrom(lines, k) == Nth(Keys(lines), "Moving to the next path.", k)

PathLines(lines, k) ==
    SubSeq(lines, PathFrom(lines, k),
           IF k < Count(Keys(lines), "Moving to the next path.")
           THEN PathFrom(lines, k + 1) - 1 ELSE Len(lines))

\* The lines seg of one path, written with the machine at from: travel that
\* ends at the first vertex at the height of from, no printing move before
\* the travel has ended, and one printing move to every vertex in vertex
\* order.
PathEncoded(seg, path, from) ==
    /\ SelectSeq(seg, IsTravel) # <<>>
    /\ Executed(SelectSeq(seg, IsTravel), 1, from, 0, 0).pos
           = <<path_start(path)[1], path_start(path)[2], from[3]>>
    /\ \A i, j \in 1..Len(seg) : (IsPrint(seg[i]) /\ IsTravel(seg[j])) => j < i
    /\ Len(SelectSeq(seg, IsPrint)) = Len(path.path_coordinates)
    /\ \A i \in 1..Len(path.path_coordinates) :
           <<SelectSeq(seg, IsPrint)[i][2], SelectSeq(seg, IsPrint)[i][3], SelectSeq(seg, IsPrint)[i][4]>>
               = <<path.path_coordinates[i][1], path.path_coordinates[i][2], from[3]>>

\* Where the machine is when the k-th path of a layer begins.
PathOrigin(pre, paths, k) ==
    IF k = 1 THEN pre.current_position
    ELSE <<path_end(paths[k - 1])[1], path_end(paths[k - 1])[2], pre.current_position[3]>>

\* C26: a slice_layer that returned wrote the comment of the layer and then,
\* for every path of the layer in stored order and for none else, the travel
\* to the path's first vertex followed by one printing move to each of its
\* vertices in vertex order.
C26_PathOrder ==
    (last.op = "slice_layer" /\ last.err = "") =>
        /\ Key(Appended[1]) = "Beginning a new layer."
        /\ Count(Keys(Appended), "Moving to the next path.")
               = Len(last.pat.layers[last.args[1]].print_paths)
        /\ PathFrom(Appended, 1) = 2
        /\ \A k \in 1..Len(last.pat.layers[last.args[1]].print_paths) :
               PathEncoded(PathLines(Appended, k), last.pat.layers[last.args[1]].print_paths[k],
                           PathOrigin(last.pre, last.pat.layers[last.args[1]].print_paths, k))

\* slice_layer has returned on a layer of two paths of two vertices each.
C26_Witness ==
    /\ last.op = "slice_layer" /\ last.err = ""
    /\ Len(last.pat.layers[last.args[1]].print_paths) = 2
    /\ Len(SelectSeq(Appended, IsPrint)) = 4

\* The square of the distance in the plane from the position pos to vertex v.
PlaneGap(pos, v) == SumSq(<<pos[1] - v[1], pos[2] - v[2]>>)

\* The vertices of a layer in the order its paths and their vertices are stored.
LayerVertices(layer) ==
    Flattened([k \in 1..Len(layer.print_paths) |-> layer.print_paths[k].path_coordinates])

\* The targets in the plane of the printing moves among lines, in order.
PrintTargets(lines) ==
    [i \in 1..Len(SelectSeq(lines, IsPrint)) |->
        <<SelectSeq(lines, IsPrint)[i][2], SelectSeq(lines, IsPrint)[i][3]>>]

\* The end of the last path of a layer is nearer to pos than the start of its
\* first path.
EndNearer(pos, layer) ==
    PlaneGap(pos, path_end(layer.print_paths[Len(layer.print_paths)]))
        < PlaneGap(pos, path_start(layer.print_paths[1]))

\* C27: when the end of the layer's last path is nearer to the current
\* position than the start of its first path, a slice_layer that returned has
\* encoded the inverted layer: its printing moves visit the vertices of the
\* layer with path order and vertex order reversed, beginning at the nearer
\* end.
C27_NearerEndFirst ==
    (last.op = "slice_layer" /\ last.err = ""
        /\ EndNearer(last.pre.current_position, last.pat.layers[last.args[1]])) =>
        PrintTargets(Appended) = LayerVertices(layer_invert(last.pat.layers[last.args[1]]).v)

\* C28: a printing move handed a width (in 1/WidthScale mm) on an encoder of
\* a variable-width policy extrudes the amount of a line of that width over
\* the length of the move.
C28_ExplicitWidth ==
    (last.op = "printing_move" /\ last.err = "" /\ ~IsNone(last.args[2])
        /\ last.pre.extrusion_control_type \in EXT_WITH_VAR_W) =>
        printer.extrusion_distance - last.pre.extrusion_distance
            = metered_amount(last.pre,
                             Norm(VSub(printer.current_position, last.pre.current_position)),
                             cross_section(Val(last.args[2]), last.pre.layer_thickness))

\* Every vertex of a path with the overlap stored at its index.
PairsOf(path) ==
    { <<path.path_coordinates[i], path.overlap[i]>> : i \in 1..Len(path.path_coordinates) }

PairsIn(layer) == { PairsOf(layer.print_paths[k]) : k \in 1..Len(layer.print_paths) }

\* C29: an invert of a path or of a layer that returned leaves every vertex
\* of every path paired with the overlap it was paired with before.
C29_OverlapFollowsVertex ==
    (last.op = "invert" /\ last.err = "") =>
        \A i \in 1..Len(pattern.layers) : PairsIn(pattern.layers[i]) = PairsIn(last.pat.layers[i])

\* C30: a non-printing move or a Z move, returned or raised, with or without
\* lift-off and retraction, leaves the extrusion of the session, the lifetime
\* extrusion and the printing distance as they were; of the encoder's state
\* only the body, the current position, the non-printing distance and the
\* print time may differ.
C30_TravelFrame ==
    last.op \in {"non_printing_move", "z_move"} =>
        /\ printer.extrusion_distance = last.pre.extrusion_distance
        /\ printer.extruded = last.pre.extruded
        /\ printer.total_extrusion_distance = last.pre.total_extrusion_distance
        /\ printer.print_distance = last.pre.print_distance
        /\ [printer EXCEPT !.body = last.pre.body,
                           !.current_position = last.pre.current_position,
                           !.non_print_distance = last.pre.non_print_distance,
                           !.print_time = last.pre.print_time] = last.pre

\* A travel with lift-off and retraction has returned on an encoder that had
\* extruded before, and has moved it.
C30_Witness ==
    /\ last.op = "non_printing_move" /\ last.err = ""
    /\ last.pre.extrusion_distance > 0
    /\ Count(Keys(Appended), "G0Z") = 2
    /\ Count(Keys(Appended), "G1E") = 2
    /\ printer.non_print_distance > last.pre.non_print_distance
    /\ printer.current_position # last.pre.current_position

---------------------------------------------------------------------------
(* Properties of the retraction pulses, of the layers slice_pattern is     *)
(* asked for, and of the Hyrel priming and cleaning lines.                 *)

\* C31: a non-printing move or Z move that returned on an encoder with both
\* a retraction length and a retraction rate wrote one reverse pulse, then
\* its motion commands, then one forward pulse of the same length and rate;
\* without either of the two it wrote no pulse; and a move that raised
\* wrote nothing.
C31_RetractionBrackets ==
    last.op \in {"non_printing_move", "z_move"} =>
        /\ last.err # "" => Appended = <<>>
        /\ (last.err = "" /\ last.pre.retraction_length # None /\ last.pre.retraction_rate # None) =>
               /\ Len(Appended) >= 3
               /\ Appended[1] = <<"G1E", 0 - Val(last.pre.retraction_length), Val(last.pre.retraction_rate)>>
               /\ Appended[Len(Appended)]
                      = <<"G1E", Val(last.pre.retraction_length), Val(last.pre.retraction_rate)>>
               /\ \A i \in 2..(Len(Appended) - 1) : IsTravel(Appended[i])
        /\ (last.err = "" /\ (last.pre.retraction_length = None \/ last.pre.retraction_rate = None)) =>
               /\ Appended # <<>>
               /\ \A i \in 1..Len(Appended) : IsTravel(Appended[i])

\* A travel with lift-off has returned on an encoder with retraction: three
\* motion commands between the two pulses.
C31_Witness ==
    /\ last.op = "non_printing_move" /\ last.err = ""
    /\ last.pre.retraction_length # None /\ last.pre.retraction_rate # None
    /\ Len(Appended) = 5

\* C32: slice_pattern handed a list or an array of layer indices returns,
\* and has called slice_layer once per element, in order, on the layer whose
\* index is the element modulo the number of layers.
C32_ListedLayers ==
    last.op = "slice_pattern" =>
        /\ last.err = ""
        /\ printer.layer_calls
               = [i \in 1..Len(last.args[1].items) |-> last.args[1].items[i] % last.pat.layer_count]

\* C33: every prime or unprime program set with a pulse count sets, per
\* line, a count that times the number of lines ceil(P / 65535) is the budget
\* P the adapter was built with.
C33_BudgetKept ==
    \A i \in 1..Len(printer.body) :
        (printer.body[i][1] \in {"M721", "M722"} /\ Len(printer.body[i]) = 5
            /\ printer.body[i][4] > 0) =>
            printer.body[i][4] * LinesFor(printer.priming_pulses) = printer.priming_pulses

\* The tool numbers a line of the body carries: T<n> carries n, and the M
\* commands carry the number plus the base of _tool_number_m_command.
ToolsOf(line) ==
    IF line[1] = "T" THEN {line[2]}
    ELSE IF line[1] \in {"M721", "M722"}
    THEN {(IF Len(line) = 4 THEN line[3] ELSE line[2]) - ToolCommandBase}
    ELSE IF line[1] \in {"M6", "M109", "M221", "M106", "M620", "M621"}
    THEN {line[2] - ToolCommandBase}
    ELSE IF line[1] = "M703" THEN {line[2] - ToolCommandBase, line[3] - ToolCommandBase}
    ELSE {}

\* C34: no line of the body carries a tool number outside [0, 4).
C34_ToolInRange ==
    \A i \in 1..Len(printer.body) : \A t \in ToolsOf(printer.body[i]) : 0 <= t /\ t < 4

\* The printing moves of the cleaning sequence: those of the priming lines,
\* from the comment that starts the priming to the comment of the zig-zag,
\* and those of the zig-zag, from there to the comment that ends the
\* cleaning.
PrimingPrints(body) ==
    SelectSeq(SubSeq(body, First(Keys(body), "Starting initial priming."),
                     First(Keys(body), "Generating a zig-zag pattern")), IsPrint)

ZigZagPrints(body) ==
    SelectSeq(SubSeq(body, First(Keys(body), "Generating a zig-zag pattern"),
                     First(Keys(body), "Cleaning with priming complete.")), IsPrint)

\* Where the k-th line of the cleaning sequence ends: the lines start at the
\* origin, the first goes in positive x, and every line is one spacing above
\* the one before.
LineEnd(k, length, spacing) == <<IF k % 2 = 1 THEN length ELSE 0, (k - 1) * spacing>>

\* C35: the cleaning sequence is ceil(P / 65535) priming lines followed by
\* cleaning_lines less that many zig-zag lines, each a printing move along X
\* and a printing step of twice the print width along Y; the X direction
\* alternates from line to line through both parts, and the lines total
\* cleaning_lines.
C35_CleaningRaster ==
    printer.cleaning_lines >= LinesFor(printer.priming_pulses) =>
        /\ Len(PrimingPrints(printer.body)) = LinesFor(printer.priming_pulses)
        /\ Len(ZigZagPrints(printer.body))
               = 2 * (printer.cleaning_lines - LinesFor(printer.priming_pulses))
        /\ 2 * Len(PrimingPrints(printer.body)) + Len(ZigZagPrints(printer.body))
               = 2 * printer.cleaning_lines
        /\ \A k \in 1..Len(PrimingPrints(printer.body)) :
               <<PrimingPrints(printer.body)[k][2], PrimingPrints(printer.body)[k][3]>>
                   = LineEnd(k, printer.cleaning_length, 2 * printer.print_width)
        /\ \A j \in 1..(printer.cleaning_lines - LinesFor(printer.priming_pulses)) :
               /\ <<ZigZagPrints(printer.body)[2 * j - 1][2], ZigZagPrints(printer.body)[2 * j - 1][3]>>
                      = LineEnd(LinesFor(printer.priming_pulses) + j, printer.cleaning_length,
                                2 * printer.print_width)
               /\ <<ZigZagPrints(printer.body)[2 * j][2], ZigZagPrints(printer.body)[2 * j][3]>>
                      = VAdd(LineEnd(LinesFor(printer.priming_pulses) + j, printer.cleaning_length,
                                     2 * printer.print_width),
                             <<0, 2 * printer.print_width>>)

\* An adapter primed in one line and cleaned with two zig-zag lines more.
C35_Witness ==
    /\ LinesFor(printer.priming_pulses) = 1
    /\ Len(ZigZagPrints(printer.body)) = 4
    /\ Len(PrimingPrints(printer.body)) = 1


---------------------------------------------------------------------------
(* Paths files whose blocks are laid out in every way: after the metadata, *)
(* up to MaxBlockLines lines, each a delimiter, a path of two vertices, a  *)
(* path of one vertex or a line of three numbers.                          *)

PathLine == DataLine(<<0, 0, 4, 0>>)

ShortLine == DataLine(<<2, 6>>)

OddLine == DataLine(<<2, 2, 6>>)

BlockAlphabet == {StartOfPattern, EndOfPattern, PathLine, ShortLine, OddLine}

\* The greatest number of lines after the metadata of a paths file.
MaxBlockLines == 6

BlockFiles ==
    { <<DiameterLine, SourceLine, CreationDates.morning>> \o lines :
      lines \in UNION {[1..n -> BlockAlphabet] : n \in 0..MaxBlockLines} }

\* Overlap files of the same slicing run: two layers of two lines of two
\* numbers, two layers of lines of three numbers and of one, one layer of
\* one line.
BlockOverlaps ==
    {None} \cup { Some(<<CreationDates.morning>> \o lines) : lines \in
        { <<StartOfPattern, DataLine(<<0, 1>>), DataLine(<<2, 0>>), EndOfPattern,
            StartOfPattern, DataLine(<<1, 1>>), DataLine(<<0, 0>>), EndOfPattern>>,
          <<StartOfPattern, DataLine(<<0, 1, 1>>), DataLine(<<2>>), EndOfPattern,
            StartOfPattern, DataLine(<<1>>), EndOfPattern>>,
          <<StartOfPattern, DataLine(<<0, 1>>), EndOfPattern>> } }

\* Before Pattern(pattern_name) on these files.
InitBlocks ==
    \E raw_content \in BlockFiles, overlap_content \in BlockOverlaps :
        /\ printer = BasePrinter(PlainConfig)
        /\ pattern = None
        /\ artifact = None
        /\ peer = None
        /\ last = [op |-> "", args |-> <<raw_content, overlap_content>>, err |-> "",
                   calls |-> 0, pre |-> printer, pat |-> None]

NextBlocks == PatternCall

SpecBlocks == InitBlocks /\ [][NextBlocks]_vars

---------------------------------------------------------------------------
(* Properties of the blocks and of the path lines of a paths file.         *)

\* The blocks of a file from line i on, each the lines between its
\* delimiters that are no delimiter: a block opens at a start delimiter
\* when none is open and closes at the next end delimiter; open is None or
\* the lines of the open block so far.
RECURSIVE BlockLayers(_, _, _)
BlockLayers(lines, i, open) ==
    IF i > Len(lines) THEN <<>>
    ELSE IF lines[i] = StartOfPattern
    THEN BlockLayers(lines, i + 1, IF IsNone(open) THEN Some(<<>>) ELSE open)
    ELSE IF lines[i] = EndOfPattern
    THEN (IF IsNone(open) THEN BlockLayers(lines, i + 1, None)
          ELSE <<Val(open)>> \o BlockLayers(lines, i + 1, None))
    ELSE BlockLayers(lines, i + 1,
                     IF IsNone(open) THEN None ELSE Some(Append(Val(open), lines[i])))

\* The vertices of the paths of the layers of a loaded pattern.
VerticesRead(pat) ==
    [i \in 1..Len(pat.layers) |->
        [j \in 1..Len(pat.layers[i].print_paths) |->
            pat.layers[i].print_paths[j].path_coordinates]]

\* The vertices the lines of the blocks stand for.
VerticesWritten(blocks) ==
    [i \in 1..Len(blocks) |->
        [j \in 1..Len(blocks[i]) |->
            [k \in 1..(Len(blocks[i][j].numbers) \div 2) |->
                <<blocks[i][j].numbers[2 * k - 1], blocks[i][j].numbers[2 * k]>>]]]

\* C36: parsing a paths file yields one layer per block delimited by a start
\* line and the following end line, in the order of the file, the paths of
\* a layer are the lines between its delimiters in order, lines outside a
\* block are no path, and an end line without a start line yields no layer:
\* the layer list made of the file is the list of its blocks, and the
\* layers of the pattern loaded from it hold the vertices of their lines.
C36_LayerPerBlock ==
    last.op = "Pattern" =>
        /\ read_into_layer_list(last.args[1]) = BlockLayers(last.args[1], 1, None)
        /\ (last.err = "" =>
                VerticesRead(Val(pattern))
                    = VerticesWritten(BlockLayers(last.args[1], 1, None)))

\* C37: every path built from input has at least two vertices and, with
\* overlap data, as many overlap values as vertices; a line of an odd count
\* of numbers or of fewer than two vertices, or an overlap line that does
\* not match its path, fails the construction.
C37_WellFormedPaths ==
    last.op = "Pattern" /\ last.err = "" =>
        \A i \in 1..Len(Val(pattern).layers) :
            \A j \in 1..Len(Val(pattern).layers[i].print_paths) :
                /\ Val(pattern).layers[i].print_paths[j].position_count >= 2
                /\ Len(Val(pattern).layers[i].print_paths[j].overlap)
                       = Val(pattern).layers[i].print_paths[j].position_count


---------------------------------------------------------------------------
(* Properties of rotate.                                                   *)

\* The call on the target reaches path j of layer i.
Reaches(target, i, j) ==
    \/ Len(target) = 0
    \/ Len(target) = 1 /\ target[1] = i
    \/ target = <<i, j>>

\* The own centre of the target, doubled: the centre the pattern or the
\* layer holds, the middle of the bounds of the path.
OwnCentre(pat, target) ==
    IF Len(target) = 0 THEN pat.centre
    ELSE IF Len(target) = 1 THEN pat.layers[target[1]].centre
    ELSE get_centre(pat.layers[target[1]].print_paths[target[2]].bounds)

\* The vertices of the pattern with those of the target turned about the
\* centre.
VerticesTurned(pat, target, quarters, centre2) ==
    [i \in 1..Len(pat.layers) |->
        [j \in 1..Len(pat.layers[i].print_paths) |->
            [k \in 1..Len(pat.layers[i].print_paths[j].path_coordinates) |->
                IF Reaches(target, i, j)
                THEN turned(pat.layers[i].print_paths[j].path_coordinates[k], quarters, centre2)
                ELSE pat.layers[i].print_paths[j].path_coordinates[k]]]]

\* The bounds of the paths of the pattern.
PathBounds(pat) ==
    [i \in 1..Len(pat.layers) |->
        [j \in 1..Len(pat.layers[i].print_paths) |-> pat.layers[i].print_paths[j].bounds]]

\* rotate(angle) without a centre has returned; a turn by an odd number of
\* quarters is about a centre that keeps the vertices whole.
RotatedAboutDefault ==
    /\ last.op = "rotate"
    /\ last.err = ""
    /\ IsNone(last.args[3])
    /\ last.args[2] % 2 = 1 =>
           (OwnCentre(last.pat, last.args[1])[1] + OwnCentre(last.pat, last.args[1])[2]) % 2 = 0

\* rotate(angle, centre) has returned after rotate(-angle, centre) on the
\* same target.
RotatedBack ==
    /\ last.op = "rotate" /\ last.err = ""
    /\ last.prev.op = "rotate" /\ last.prev.err = ""
    /\ last.args[1] = last.prev.args[1]
    /\ last.args[3] = last.prev.args[3]
    /\ (last.args[2] + last.prev.args[2]) % 4 = 0

\* C38: rotate without a centre turns a path, a layer and the pattern about
\* its own centre, and rotate(angle) followed by rotate(-angle) about the
\* same centre brings back the coordinates and the bounds.
C38_RotateOwnCentre ==
    /\ RotatedAboutDefault =>
           VerticesRead(pattern)
               = VerticesTurned(last.pat, last.args[1], last.args[2],
                                OwnCentre(last.pat, last.args[1]))
    /\ RotatedBack =>
           /\ VerticesRead(pattern) = VerticesRead(last.prev.pat)
           /\ PathBounds(pattern) = PathBounds(last.prev.pat)
           /\ Len(last.args[1]) = 1 =>
                  pattern.layers[last.args[1][1]].bounds
                      = last.prev.pat.layers[last.args[1][1]].bounds
           /\ Len(last.args[1]) = 0 => pattern.bounds = last.prev.pat.bounds


---------------------------------------------------------------------------
(* Long sessions: non-printing moves across a wide bed at 1 mm/min, then   *)
(* an export.                                                              *)

SlowConfig == [PlainConfig EXCEPT !.non_print_speed = 1]

\* The targets of the moves, in mm.
FarTargets == {<<0, 0>>, <<1, 1>>, <<1400, 0>>, <<1400, 1>>, <<600, 800>>}

InitElapsed == Start(BasePrinter(SlowConfig), PatternA)

FarMoveCall ==
    \E position \in FarTargets :
        /\ last.calls < MaxMoves
        /\ last.op # "export"
        /\ Recorded("non_printing_move", <<position>>,
                    non_printing_move(printer, position, None))
        /\ UNCHANGED <<pattern, artifact>>

\* export after any number of the moves.
ElapsedExportCall ==
    \E sup \in SupplementArgs :
        /\ last.op # "export"
        /\ Recorded("export", sup, export(printer, sup[1], sup[2], sup[3]).printer)
        /\ artifact' = export(printer, sup[1], sup[2], sup[3]).artifact
        /\ UNCHANGED pattern

NextElapsed == FarMoveCall \/ ElapsedExportCall

SpecElapsed == InitElapsed /\ [][NextElapsed]_vars

---------------------------------------------------------------------------
(* Properties of the elapsed time of the summary.                          *)

\* The elapsed-time comments of the header.
ElapsedLines == SelectSeq(printer.header, LAMBDA line : Key(line) = "Total printing time")

\* The accumulated print time in whole seconds.
WholeSeconds(print_time) == (print_time * 60) \div TimeUnit

\* C39: the elapsed time H:M:S export writes to the header is the
\* accumulated print time: M and S are in 0..59 and H*3600 + M*60 + S is the
\* print time in whole seconds, for sessions of 60 hours and more as well.
C39_ElapsedExact ==
    last.op = "export" /\ last.err = "" =>
        /\ Len(ElapsedLines) = 1
        /\ ElapsedLines[1][4] \in 0..59
        /\ ElapsedLines[1][5] \in 0..59
        /\ ElapsedLines[1][3] * 3600 + ElapsedLines[1][4] * 60 + ElapsedLines[1][5]
               = WholeSeconds(printer.print_time)

====
